---------------------------- MODULE Spec2Model ----------------------------
(***************************************************************************)
(* Review IABD: a model of the question-generation pipeline                *)
(* (GeminiService / OpenRouterService / retryWithBackoff / batchArray) and *)
(* of the quiz runner with its stored sessions and saved exams             *)
(* (quiz page, exam page, IndexedDBService), and of the favorites,         *)
(* settings, backup and reset operations.                                  *)
(***************************************************************************)
EXTENDS Integers, Sequences, FiniteSets, TLC

VARIABLES
    \* ---- generation pipeline (one generateQuestions call at a time) ----
    provider,       \* "gemini" | "openrouter": the service the factory returned
    gpc,            \* position of the call: idle, loop, fetch, sleep, done, failed
    count,          \* request.count (N)
    apiKey,         \* TRUE iff the key of the provider is configured in the settings
    settingsBatch,  \* settings.batchSize, 0 when the settings hold none
    batchIndex,     \* loop index of generateQuestions
    allQuestions,   \* allQuestions.length
    attempt,        \* i of retryWithBackoff
    waits,          \* the delays slept by retryWithBackoff for the current batch
    caught,         \* the error retryWithBackoff has just caught (kind "none": none)
    bodyKind,       \* kind of the body generateQuestionsBatch failed on ("none": none)
    fetchCalls,     \* provider (HTTP) calls issued by this generateQuestions call
    batchCalls,     \* generateQuestionsBatch invocations of this call
    requested,      \* the count asked of each generateQuestionsBatch invocation
    error,          \* what the call threw to its caller
    progress,       \* the onProgress calls of this call: how many, and the last one
    \* ---- the local database (IndexedDB object stores) ----
    sessions,       \* store "sessions": session id -> QuizSession
    exam,           \* store "exams": the SavedExam record (one exam is modelled)
    sessionsQ,      \* requests on store "sessions" not yet executed, oldest first
    examsQ,         \* requests on store "exams" not yet executed, oldest first
    nextAttempt,    \* source of fresh ExamAttempt ids (`attempt-${Date.now()}`)
    \* ---- the quiz page (QuizContent state) ----
    quizOpen,       \* the page is mounted and its session is loaded
    sessionId,      \* the session of the URL
    sessionType,    \* "practice" | "exam"
    currentIndex,   \* 0-based index of the question shown
    selectedAnswers,\* question id -> selected answer id, for the answered questions
    showResult,
    quizCompleted,
    showQuickNav,   \* the quick-navigation grid is shown
    shownFor,       \* history: the questions whose result this page load has shown
    completion,     \* the handleQuizCompletion flow of the page
    \* ---- the exam pages (ExamPage / ExamsPage state) ----
    examPage,       \* the exam list the page loaded, and its retake in progress
    \* ---- favorites, settings, backup and reset ----
    favStore,       \* store "favorites": question id -> stored Question record
    favorites,      \* the favorites Set of the quiz page (ids)
    favQ,           \* handleToggleFavorite calls awaiting their database request
    toggled,        \* the store when a question was first toggled, and the clicks since
    settingsStore,  \* store "settings", key "user"
    settingsCache,  \* StorageService.settingsCache
    exported,       \* the backup file handleExport produced
    route,          \* the page the settings flow left the user on
    lastDataOp,     \* the last operation that wrote local data
    \* ---- the response parsers ----
    parser,         \* the parser an item of a provider response is given to
    item,           \* the item (one element of the JSON array)
    parsed,         \* what the parser made of it, None before it ran
    \* ---- the practice page ----
    practice,       \* PracticePage state and the position of handleGenerate
    \* ---- the quiz timer ----
    timer,          \* QuizTimer's time with the page state it depends on
    \* ---- the service worker ----
    coreCache,      \* CACHE_NAME: url -> response, filled by the install event
    staticCache,    \* STATIC_CACHE: url -> response
    runtimeCache,   \* RUNTIME_CACHE: url -> response
    handled,        \* the fetch event just handled and its outcome, NoEvent if none
    \* ---- statistics ----
    statistics,     \* store "statistics", key "user": None or the UserStatistics
    service,        \* the StatisticsService singleton of the loaded document
    questionDomains,\* session id -> question.domain of each of its questions
    attemptAnswers, \* ExamAttempt id -> the userAnswers (and domains) it carries
    updated,        \* history: updateFromSession runs, per session id
    appended,       \* history: ExamAttempts appended, per session id
    \* ---- the update of the service worker ----
    registration,   \* the versions of sw.js: deployed, installing, waiting, active
    page,           \* the loaded document: its controller and ServiceWorkerUpdate
    swUpdateAvailable, \* localStorage item 'swUpdateAvailable' is 'true'
    clicked         \* history: 'update now' was clicked since a version was found

genVars == <<provider, gpc, count, apiKey, settingsBatch, batchIndex, allQuestions,
             attempt, waits, caught, bodyKind, fetchCalls, batchCalls, requested,
             error, progress>>

quizVars == <<sessions, exam, sessionsQ, examsQ, nextAttempt, quizOpen, sessionId,
              sessionType, currentIndex, selectedAnswers, showResult, quizCompleted,
              completion, examPage>>

dataVars == <<favStore, favorites, favQ, toggled, settingsStore, settingsCache,
              exported, route, lastDataOp>>

parseVars == <<parser, item, parsed>>

navVars == <<showQuickNav>>

histVars == <<shownFor>>

practiceVars == <<practice>>

timerVars == <<timer>>

swVars == <<coreCache, staticCache, runtimeCache, handled>>

statVars == <<statistics, service, questionDomains, attemptAnswers, updated, appended>>

updateVars == <<registration, page, swUpdateAvailable, clicked>>

otherThanGen == <<quizVars, dataVars, parseVars, practiceVars, timerVars, swVars, navVars, histVars, statVars, updateVars>>

otherThanQuiz == <<genVars, dataVars, parseVars, practiceVars, timerVars, swVars, navVars, histVars, statVars, updateVars>>

\* what the quiz actions that close the quick-navigation grid leave alone
otherThanQuizNav == <<genVars, dataVars, parseVars, practiceVars, timerVars, swVars, histVars, statVars, updateVars>>

\* the same, for the runs that keep the history of the results shown
otherThanQuizNavHist == <<genVars, dataVars, parseVars, practiceVars, timerVars, swVars, statVars, updateVars>>

otherThanQuizHist == <<genVars, dataVars, parseVars, practiceVars, timerVars, swVars, navVars, statVars, updateVars>>

\* what the quiz actions that also write the statistics leave alone
otherThanQuizStat == <<genVars, dataVars, parseVars, practiceVars, timerVars, swVars, navVars, histVars, updateVars>>

otherThanQuizNavStat == <<genVars, dataVars, parseVars, practiceVars, timerVars, swVars, histVars, updateVars>>

otherThanData == <<genVars, quizVars, parseVars, practiceVars, timerVars, swVars, navVars, histVars, statVars, updateVars>>

otherThanDataQuiz == <<genVars, parseVars, practiceVars, timerVars, swVars, navVars, histVars, statVars, updateVars>>

otherThanParse == <<genVars, quizVars, dataVars, practiceVars, timerVars, swVars, navVars, histVars, statVars, updateVars>>

otherThanPractice == <<genVars, quizVars, dataVars, parseVars, timerVars, swVars, navVars, histVars, statVars, updateVars>>

otherThanTimer == <<genVars, quizVars, dataVars, parseVars, practiceVars, swVars, navVars, histVars, statVars, updateVars>>

otherThanSW == <<genVars, quizVars, dataVars, parseVars, practiceVars, timerVars, navVars, histVars, statVars, updateVars>>

vars == <<genVars, quizVars, dataVars, parseVars, practiceVars, timerVars, swVars, navVars, histVars, statVars, updateVars>>

-----------------------------------------------------------------------------
(* Bounds of the model *)
MaxCount == 11      \* largest request.count explored
MaxBatch == 3       \* largest settings.batchSize explored
MaxExtra == 1       \* how many items more than asked the provider may return
MaxShort == 1       \* how many items fewer than asked the provider may return

(* Program constants *)
BATCH_SIZE == 10    \* OpenRouterService.ts:20
DEFAULT_BATCH == 10 \* GeminiService.ts:272  (settings?.batchSize || 10)
MAX_RETRIES == 3    \* GeminiService.ts:19, OpenRouterService.ts:21
BASE_DELAY == 1000  \* GeminiService.ts:20, OpenRouterService.ts:22

Providers == {"gemini", "openrouter"}

Min(a, b) == IF a < b THEN a ELSE b
Max(a, b) == IF a > b THEN a ELSE b

RECURSIVE Pow2(_)
Pow2(n) == IF n = 0 THEN 1 ELSE 2 * Pow2(n - 1)

\* Math.ceil(a / b) for a >= 0, b >= 1
Ceil(a, b) == (a + b - 1) \div b

RECURSIVE SumSeq(_)
SumSeq(s) == IF s = <<>> THEN 0 ELSE Head(s) + SumSeq(Tail(s))

-----------------------------------------------------------------------------
(* utils.ts batchArray, on an array of the given length: the lengths of the *)
(* chunks  array.slice(i, i + batchSize)  for i = 0, batchSize, ...         *)
RECURSIVE BatchFrom(_, _, _)
BatchFrom(i, len, size) ==
    IF i < len THEN <<Min(i + size, len) - i>> \o BatchFrom(i + size, len, size)
               ELSE <<>>

batchArrayDropsRemainder(len, size) == [k \in 1 .. (len \div size) |-> size]

batchArray(len, size) == BatchFrom(0, len, size)

BackoffDelayConstant(i) == BASE_DELAY

\* the delay retryWithBackoff sleeps after failed attempt i
BackoffDelay(i) == BASE_DELAY * Pow2(i)

RetryExhaustedOneLater(i) == i = MAX_RETRIES

\* retryWithBackoff: TRUE iff the error of failed attempt i is rethrown
RetryExhausted(i) == i = MAX_RETRIES - 1

-----------------------------------------------------------------------------
(* Thrown values.  code "" and statusCode 0 stand for undefined.           *)
NoError == [thrown |-> FALSE, code |-> "", statusCode |-> 0, isRetryable |-> FALSE]

Err(c, s, r) == [thrown |-> TRUE, code |-> c, statusCode |-> s, isRetryable |-> r]

\* GeminiService.ts createAPIError(message, status)
createAPIError(status) ==
    IF status = 401 \/ status = 403 THEN Err("INVALID_API_KEY", status, FALSE)
    ELSE IF status = 429 THEN Err("RATE_LIMIT", status, TRUE)
    ELSE IF status # 0 /\ status >= 500 THEN Err("SERVER_ERROR", status, TRUE)
    ELSE Err("", status, FALSE)

\* OpenRouterService.ts handleAPIError(error); response = 0: error.response is undefined
handleAPIError(response) ==
    IF response # 0 THEN
        IF response = 429 THEN Err("RATE_LIMIT", response, TRUE)
        ELSE IF response = 401 \/ response = 403 THEN Err("INVALID_API_KEY", response, FALSE)
        ELSE IF response >= 500 THEN Err("SERVER_ERROR", response, TRUE)
        ELSE Err("", response, FALSE)
    ELSE Err("", 0, FALSE)

\* GeminiService.generateQuestionsBatch, catch block: an error with a code is rethrown,
\* any other is wrapped
GeminiCatch(e) == IF e.code # "" THEN e ELSE Err("GENERATION_ERROR", 0, TRUE)

-----------------------------------------------------------------------------
(* What the provider answers to one HTTP call.                              *)
(*   a failure: fetch itself rejected (kind "network"), or an HTTP error   *)
(*              status (kind "http")                                        *)
(*   status 200 and a body, of one of these kinds:                          *)
(*     badEnvelope  the HTTP body is not JSON (res.json() rejects)          *)
(*     noContent    no choices / candidates in the envelope                 *)
(*     emptyText    the generated text is the empty string                  *)
(*     malformed    the text holds malformed or truncated JSON              *)
(*     notArray     the text is JSON but holds no array                     *)
(*     array        a JSON array of n items; invalid: some item lacks       *)
(*                  question or answers                                     *)
Failures ==
    [kind : {"network"}, status : {0}]
    \cup [kind : {"http"}, status : {400, 401, 403, 429, 500}]

NothingCaught == [kind |-> "none", status |-> 0]

\* res.json() rejected inside the retried function of OpenRouterService
EnvelopeFailure == [kind |-> "plain", status |-> 0]

BodyKinds == {"badEnvelope", "noContent", "emptyText", "malformed", "notArray"}

Bodies(asked) ==
    [kind : BodyKinds, n : {0}, invalid : {FALSE}]
    \cup [kind : {"array"}, n : Max(0, asked - MaxShort) .. (asked + MaxExtra),
           invalid : BOOLEAN]

\* parseQuestionsFromResponse of both services: TRUE iff the text parses into questions
ParsesOk(body) == body.kind = "array" /\ ~body.invalid

\* GeminiService.ts parseQuestionsFromResponse: the error of a failed parse
GeminiParseError == Err("PARSE_ERROR", 0, TRUE)

\* OpenRouterService.ts parseQuestionsFromResponse throws new Error(...): a plain
\* Error, which generateQuestionsBatch hands to handleAPIError
OpenRouterParseError == handleAPIError(0)

----------------------------------------------------------------------------
(* The effective batch size and the batches of a call *)
EffectiveBatch ==
    IF provider = "gemini"
        THEN (IF settingsBatch # 0 THEN settingsBatch ELSE DEFAULT_BATCH)
        ELSE BATCH_SIZE

\* number of loop iterations of generateQuestions
TotalBatches ==
    IF provider = "gemini" THEN Len(batchArray(count, EffectiveBatch))
                           ELSE Ceil(count, BATCH_SIZE)

\* the count asked of generateQuestionsBatch in iteration i (0-based)
BatchCount(i) ==
    IF provider = "gemini" THEN batchArray(count, EffectiveBatch)[i + 1]
                           ELSE Min(BATCH_SIZE, count - i * BATCH_SIZE)

----------------------------------------------------------------------------
\* no onProgress call yet
NoProgress == [calls |-> 0, current |-> 0, total |-> 0]

\* only the questions of the batch are counted
onProgressBatchOnly(previous, accumulated, batch, n) ==
    [calls |-> previous.calls + 1, current |-> batch, total |-> n]

\* onProgress({current: allQuestions.length, total: count, batch}) after a batch
\* of the given length: what the caller has been told
onProgress(previous, accumulated, batch, n) ==
    [calls |-> previous.calls + 1, current |-> accumulated, total |-> n]

GenInit ==
    /\ progress = NoProgress
    /\ provider = "gemini"
    /\ gpc = "idle"
    /\ count = 0
    /\ apiKey = FALSE
    /\ settingsBatch = 0
    /\ batchIndex = 0
    /\ allQuestions = 0
    /\ attempt = 0
    /\ waits = <<>>
    /\ caught = NothingCaught
    /\ bodyKind = "none"
    /\ fetchCalls = 0
    /\ batchCalls = 0
    /\ requested = <<>>
    /\ error = NoError

\* generateQuestions is called: the request and the settings of the moment
StartGenerate(p, n, key, bs) ==
    /\ gpc = "idle"
    /\ provider' = p
    /\ count' = n
    /\ apiKey' = key
    /\ settingsBatch' = bs
    /\ batchIndex' = 0
    /\ allQuestions' = 0
    /\ attempt' = 0
    /\ waits' = <<>>
    /\ caught' = NothingCaught
    /\ bodyKind' = "none"
    /\ fetchCalls' = 0
    /\ batchCalls' = 0
    /\ requested' = <<>>
    /\ progress' = NoProgress
    \* GeminiService.generateQuestions checks the key before the loop
    /\ IF p = "gemini" /\ ~key
          THEN gpc' = "failed" /\ error' = Err("NO_API_KEY", 0, FALSE)
          ELSE gpc' = "loop" /\ error' = NoError
    /\ UNCHANGED otherThanGen

\* one test of the for loop: the next generateQuestionsBatch call, or the return
LoopStep ==
    /\ gpc = "loop"
    /\ IF batchIndex < TotalBatches
          THEN /\ batchCalls' = batchCalls + 1
               /\ requested' = Append(requested, BatchCount(batchIndex))
               /\ attempt' = 0
               /\ waits' = <<>>
               /\ caught' = NothingCaught
               /\ bodyKind' = "none"
               /\ IF apiKey
                     THEN gpc' = "fetch" /\ error' = error
                     ELSE /\ gpc' = "failed"
                          /\ error' = IF provider = "gemini"
                                         THEN GeminiCatch(Err("NO_API_KEY", 0, FALSE))
                                         ELSE handleAPIError(0)
          ELSE /\ gpc' = "done"
               /\ UNCHANGED <<batchCalls, requested, attempt, waits, caught, bodyKind,
                               error>>
    /\ UNCHANGED <<provider, count, apiKey, settingsBatch, batchIndex, allQuestions,
                   fetchCalls, progress>>
    /\ UNCHANGED otherThanGen

\* the error generateQuestionsBatch throws when the retry function failed for good
\* (a rejected fetch is a TypeError: no code, no response)
BatchError(f) ==
    IF provider = "gemini"
        THEN GeminiCatch(IF f.kind = "http" THEN createAPIError(f.status)
                                            ELSE Err("", 0, FALSE))
        ELSE handleAPIError(IF f.kind = "http" THEN f.status ELSE 0)

\* one provider call that fails: fetch rejects or the status is not ok
FetchFail(f) ==
    /\ gpc = "fetch"
    /\ fetchCalls' = fetchCalls + 1
    /\ caught' = f
    /\ IF RetryExhausted(attempt)
          THEN gpc' = "failed" /\ error' = BatchError(f)
          ELSE gpc' = "sleep" /\ error' = error
    /\ UNCHANGED <<provider, count, apiKey, settingsBatch, batchIndex, allQuestions,
                   attempt, waits, bodyKind, batchCalls, requested, progress>>
    /\ UNCHANGED otherThanGen

\* await sleep(delay) of retryWithBackoff, then the next iteration
Sleep ==
    /\ gpc = "sleep"
    /\ waits' = Append(waits, BackoffDelay(attempt))
    /\ attempt' = attempt + 1
    /\ gpc' = "fetch"
    /\ caught' = NothingCaught  \* the caught error goes out of scope
    /\ UNCHANGED <<provider, count, apiKey, settingsBatch, batchIndex, allQuestions,
                   bodyKind, fetchCalls, batchCalls, requested, error, progress>>
    /\ UNCHANGED otherThanGen

\* TRUE iff generateQuestionsBatch accepts the parsed list of n questions when
\* asked for the given number (GeminiService only warns on a mismatch,
\* OpenRouterService does not look)
AcceptsBatch(n, asked) == TRUE

\* the error generateQuestionsBatch throws for a body it cannot turn into questions
BodyError(body) ==
    IF provider = "gemini"
        THEN IF body.kind \in {"badEnvelope", "noContent"}
                THEN GeminiCatch(Err("", 0, FALSE))      \* a plain Error
                ELSE GeminiCatch(GeminiParseError)
        ELSE IF body.kind = "noContent"
                THEN handleAPIError(0)                   \* Error("Empty response from API")
                ELSE OpenRouterParseError

\* one provider call answered with status 200 and the given body
FetchOk(body) ==
    /\ gpc = "fetch"
    /\ fetchCalls' = fetchCalls + 1
    /\ IF provider = "openrouter" /\ body.kind = "badEnvelope"
          \* res.json() rejects inside the retried function: a failed attempt
          THEN /\ caught' = EnvelopeFailure
               /\ IF RetryExhausted(attempt)
                     THEN gpc' = "failed" /\ error' = handleAPIError(0)
                     ELSE gpc' = "sleep" /\ error' = error
               /\ UNCHANGED <<batchIndex, allQuestions, bodyKind, progress>>
          ELSE /\ caught' = NothingCaught
               /\ IF ParsesOk(body) /\ AcceptsBatch(body.n, BatchCount(batchIndex))
                     THEN /\ allQuestions' = allQuestions + body.n
                          /\ batchIndex' = batchIndex + 1
                          /\ gpc' = "loop"
                          /\ error' = error
                          /\ bodyKind' = "none"
                          /\ progress' = onProgress(progress, allQuestions', body.n, count)
                     ELSE /\ gpc' = "failed"
                          /\ error' = BodyError(body)
                          /\ bodyKind' = IF body.kind = "array" THEN "invalidItem"
                                                                ELSE body.kind
                          /\ UNCHANGED <<batchIndex, allQuestions, progress>>
    /\ UNCHANGED <<provider, count, apiKey, settingsBatch, attempt, waits, batchCalls,
                   requested>>
    /\ UNCHANGED otherThanGen

\* the caller takes the result (or the error); the service is idle again
Return ==
    /\ gpc \in {"done", "failed"}
    /\ gpc' = "idle"
    /\ provider' = "gemini"
    /\ count' = 0
    /\ apiKey' = FALSE
    /\ settingsBatch' = 0
    /\ batchIndex' = 0
    /\ allQuestions' = 0
    /\ attempt' = 0
    /\ waits' = <<>>
    /\ caught' = NothingCaught
    /\ bodyKind' = "none"
    /\ fetchCalls' = 0
    /\ batchCalls' = 0
    /\ requested' = <<>>
    /\ error' = NoError
    /\ progress' = NoProgress
    /\ UNCHANGED otherThanGen

GenNext ==
    \/ \E p \in Providers, n \in 1 .. MaxCount, key \in BOOLEAN, bs \in 0 .. MaxBatch :
          StartGenerate(p, n, key, bs)
    \/ LoopStep
    \/ \E f \in Failures : FetchFail(f)
    \/ Sleep
    \/ gpc = "fetch" /\ \E b \in Bodies(BatchCount(batchIndex)) : FetchOk(b)
    \/ Return

----------------------------------------------------------------------------
(* The quiz runner: stored sessions, the saved exam, the quiz page and the  *)
(* exam pages.                                                              *)

(* Bounds of the model *)
NumQuestions == 2   \* questions of a session
MaxSessions == 2    \* sessions that can be created
MaxPending == 1     \* saveSessionProgress calls in flight at once

Questions == 1 .. NumQuestions
\* the options of a question, by what the code asks of them: answer.isCorrect
Answers == {"correct", "wrong"}
SessionIds == 1 .. MaxSessions

\* question.answers.find(a => a.isCorrect)?.id
CorrectAnswer(q) == "correct"

\* Math.round((c / t) * 100) for c >= 0, t > 0
RoundPercent(c, t) == (200 * c + t) \div (2 * t)

NoAnswers == <<>>

NoSession ==
    [exists |-> FALSE, type |-> "", examId |-> FALSE, userAnswers |-> NoAnswers,
     currentIndex |-> 0, status |-> ""]

\* the session record handleStartExam / handleRetakeExam / handleGenerate store
NewSession(type) ==
    [exists |-> TRUE, type |-> type, examId |-> (type = "exam"),
     userAnswers |-> NoAnswers, currentIndex |-> 0, status |-> "IN_PROGRESS"]

NoExam == [exists |-> FALSE, attempts |-> <<>>, bestScore |-> 0, bestAttemptId |-> 0]

\* the SavedExam handleStartExam stores (bestAttemptId "" is modelled as 0)
NewExam == [exists |-> TRUE, attempts |-> <<>>, bestScore |-> 0, bestAttemptId |-> 0]

\* a request waiting on a store, with what its continuation holds
Request(flow, op, sid, idx, answers, session, ex) ==
    [flow |-> flow, op |-> op, sid |-> sid, idx |-> idx, answers |-> answers,
     session |-> session, exam |-> ex]

IdleCompletion ==
    [pc |-> "idle", sid |-> 0, session |-> NoSession, sessionScore |-> 0,
     saved |-> FALSE, score |-> 0, attemptId |-> 0]

ClosedExamPage == [loaded |-> FALSE, exam |-> NoExam, busy |-> FALSE]

FreeSessionIds == {s \in SessionIds : ~sessions[s].exists}

\* ids no session holds and no retake in flight is about to use
UnusedSessionIds ==
    {s \in FreeSessionIds :
        \A k \in 1 .. Len(sessionsQ) :
            ~(sessionsQ[k].flow = "retake" /\ sessionsQ[k].sid = s)}

MinOf(S) == CHOOSE x \in S : \A y \in S : x <= y

----------------------------------------------------------------------------
(* Scores *)

\* quiz page calculateScore(): the score of the result screen
calculateScore ==
    RoundPercent(
        Cardinality({q \in Questions :
            q \in DOMAIN selectedAnswers /\ selectedAnswers[q] = CorrectAnswer(q)}),
        NumQuestions)

AnsweredIn(session) == {q \in Questions : q \in DOMAIN session.userAnswers}

CorrectIn(session) == {q \in AnsweredIn(session) : session.userAnswers[q].isCorrect}

\* saveExamAttempt: the score stored in the ExamAttempt
AttemptScore(session) ==
    IF Cardinality(AnsweredIn(session)) > 0
        THEN RoundPercent(Cardinality(CorrectIn(session)),
                          Cardinality(AnsweredIn(session)))
        ELSE 0

\* StatisticsService.calculateSessionScore: {} stands for null
calculateSessionScore(session) ==
    IF Cardinality(AnsweredIn(session)) > 0
        THEN {RoundPercent(Cardinality(CorrectIn(session)),
                           Cardinality(AnsweredIn(session)))}
        ELSE {}

\* StatisticsService.updateFromSession: the sessionScore it averages in
UpdateSessionScore(session) ==
    IF Cardinality(DOMAIN session.userAnswers) > 0
        THEN RoundPercent(Cardinality(CorrectIn(session)),
                          Cardinality(DOMAIN session.userAnswers))
        ELSE 0

\* a restore that keeps only part of the stored answers
ToSelectedAnswersCorrectOnly(userAnswers) ==
    [q \in {x \in DOMAIN userAnswers : userAnswers[x].isCorrect} |->
        userAnswers[q].selected]

\* saveSessionProgress: selectedAnswers converted to the userAnswers format
ToUserAnswers(answers) ==
    [q \in DOMAIN answers |->
        [selected |-> answers[q], isCorrect |-> (answers[q] = CorrectAnswer(q))]]

\* loadSession: userAnswers converted to the selectedAnswers of the page
ToSelectedAnswers(userAnswers) ==
    [q \in DOMAIN userAnswers |-> userAnswers[q].selected]

NewBestScoreLatest(ex, score) == score

\* saveExamAttempt: newBestScore
NewBestScore(ex, score) == IF ex.bestScore > score THEN ex.bestScore ELSE score

\* saveExamAttempt: newBestAttemptId
NewBestAttemptId(ex, score, id) == IF score > ex.bestScore THEN id ELSE ex.bestAttemptId

\* saveExamAttempt: the ExamAttempt and the updated SavedExam
Attempt(session, sid, id) ==
    [id |-> id, score |-> AttemptScore(session)]

UpdatedExam(ex, session, sid, id) ==
    [ex EXCEPT !.attempts = Append(ex.attempts, Attempt(session, sid, id)),
               !.bestScore = NewBestScore(ex, AttemptScore(session)),
               !.bestAttemptId = NewBestAttemptId(ex, AttemptScore(session), id)]

----------------------------------------------------------------------------
QuizInit ==
    /\ sessions = [s \in SessionIds |-> NoSession]
    /\ exam = NoExam
    /\ sessionsQ = <<>>
    /\ examsQ = <<>>
    /\ nextAttempt = 1
    /\ quizOpen = FALSE
    /\ sessionId = 0
    /\ sessionType = "practice"
    /\ currentIndex = 0
    /\ selectedAnswers = NoAnswers
    /\ showResult = FALSE
    /\ quizCompleted = FALSE
    /\ showQuickNav = FALSE
    /\ shownFor = {}
    /\ completion = IdleCompletion
    /\ examPage = ClosedExamPage

pageVars == <<quizOpen, sessionId, sessionType, currentIndex, selectedAnswers,
              showResult, quizCompleted>>

\* ExamPage.handleStartExam once the questions are generated: the exam template
\* and its first session are stored
StartExam ==
    /\ ~exam.exists
    /\ UnusedSessionIds # {}
    /\ sessionsQ = <<>> /\ examsQ = <<>>
    /\ exam' = NewExam
    /\ sessions' = [sessions EXCEPT ![MinOf(UnusedSessionIds)] = NewSession("exam")]
    /\ UNCHANGED <<sessionsQ, examsQ, nextAttempt, pageVars, completion, examPage>>

\* PracticePage.handleGenerate once the questions are generated
StartPractice ==
    /\ UnusedSessionIds # {}
    /\ sessionsQ = <<>>
    /\ sessions' = [sessions EXCEPT ![MinOf(UnusedSessionIds)] = NewSession("practice")]
    /\ UNCHANGED <<exam, sessionsQ, examsQ, nextAttempt, pageVars, completion, examPage>>

\* no request or continuation of the quiz page is in flight
QuizQuiet ==
    /\ completion.pc \in {"idle", "done"}
    /\ \A k \in 1 .. Len(sessionsQ) : sessionsQ[k].flow \notin {"save", "complete"}

\* the quiz page is loaded for session s (loadSession)
OpenQuiz(s) ==
    /\ sessions[s].exists
    /\ sessions[s].status = "IN_PROGRESS"
    /\ QuizQuiet
    /\ sessionsQ = <<>>
    /\ quizOpen' = TRUE
    /\ sessionId' = s
    /\ sessionType' = sessions[s].type
    /\ currentIndex' = sessions[s].currentIndex
    /\ selectedAnswers' = ToSelectedAnswers(sessions[s].userAnswers)
    /\ showResult' = FALSE
    /\ quizCompleted' = FALSE
    /\ showQuickNav' = FALSE
    /\ completion' = IdleCompletion
    /\ UNCHANGED <<sessions, exam, sessionsQ, examsQ, nextAttempt, examPage>>

\* the quiz page is unloaded (reload, tab closed) while saveSessionProgress calls
\* wait for their getSession: their continuations never run; a saveSession already
\* issued is still executed
UnloadQuiz ==
    /\ quizOpen /\ ~quizCompleted
    /\ \E k \in 1 .. Len(sessionsQ) : sessionsQ[k].flow = "save" /\ sessionsQ[k].op = "get"
    /\ sessionsQ' = SelectSeq(sessionsQ, LAMBDA r : ~(r.flow = "save" /\ r.op = "get"))
    /\ quizOpen' = FALSE
    /\ showQuickNav' = FALSE
    /\ UNCHANGED <<sessions, exam, examsQ, nextAttempt, sessionId, sessionType,
                   currentIndex, selectedAnswers, showResult, quizCompleted,
                   completion, examPage>>

Answering == quizOpen /\ ~quizCompleted

\* saveSessionProgress calls that have not finished
PendingSaves == Cardinality({k \in 1 .. Len(sessionsQ) : sessionsQ[k].flow = "save"})

CanSave == PendingSaves < MaxPending

\* the effect on [currentIndex, selectedAnswers]: saveSessionProgress starts with
\* the state of this render and asks for the stored session
SaveSessionProgress(idx, answers) ==
    Append(sessionsQ, Request("save", "get", sessionId, idx, answers, NoSession, NoExam))

\* the effect on [quizCompleted, sessionId]: handleQuizCompletion starts
HandleQuizCompletion(q) ==
    Append(q, Request("complete", "get", sessionId, 0, NoAnswers, NoSession, NoExam))

handleAnswerSelect(a) ==
    /\ Answering
    /\ ~showResult                      \* QuestionCard disables the options
    /\ CanSave
    /\ selectedAnswers' =
          [q \in DOMAIN selectedAnswers \cup {currentIndex + 1} |->
              IF q = currentIndex + 1 THEN a ELSE selectedAnswers[q]]
    /\ sessionsQ' = SaveSessionProgress(currentIndex, selectedAnswers')
    /\ UNCHANGED <<sessions, exam, examsQ, nextAttempt, quizOpen, sessionId,
                   sessionType, currentIndex, showResult, quizCompleted, completion,
                   examPage>>

\* setQuizCompleted(true): the result screen, and the completion effect
Complete ==
    /\ quizCompleted' = TRUE
    /\ sessionsQ' = HandleQuizCompletion(sessionsQ)
    /\ completion' = [IdleCompletion EXCEPT !.pc = "session", !.sid = sessionId]
    /\ UNCHANGED <<sessions, exam, examsQ, nextAttempt, quizOpen, sessionId,
                   sessionType, currentIndex, selectedAnswers, showResult, examPage>>

\* a Next that also moves on from the last question
HasNextQuestionPastEnd(i) == i < NumQuestions

\* handleNext: currentIndex < questions.length - 1
HasNextQuestion(i) == i < NumQuestions - 1

handleNext ==
    /\ Answering
    /\ HasNextQuestion(currentIndex) => CanSave
    \* exam: the Next button; practice: Next is shown once the result is
    /\ sessionType = "exam" \/ showResult
    /\ IF HasNextQuestion(currentIndex)
          THEN /\ currentIndex' = currentIndex + 1
               /\ showResult' = FALSE
               /\ sessionsQ' = SaveSessionProgress(currentIndex', selectedAnswers)
               /\ UNCHANGED <<sessions, exam, examsQ, nextAttempt, quizOpen, sessionId,
                              sessionType, selectedAnswers, quizCompleted, completion,
                              examPage>>
          ELSE Complete

handlePrevious ==
    /\ Answering
    /\ CanSave
    /\ currentIndex > 0
    /\ currentIndex' = currentIndex - 1
    /\ showResult' = FALSE
    /\ sessionsQ' = SaveSessionProgress(currentIndex', selectedAnswers)
    /\ UNCHANGED <<sessions, exam, examsQ, nextAttempt, quizOpen, sessionId,
                   sessionType, selectedAnswers, quizCompleted, completion, examPage>>

handleGoToQuestion(i) ==
    /\ Answering
    /\ showQuickNav                \* its buttons are those of the grid
    /\ CanSave
    /\ currentIndex' = i
    /\ showResult' = FALSE
    /\ showQuickNav' = FALSE
    \* the effect runs only when currentIndex changed
    /\ sessionsQ' = IF i # currentIndex THEN SaveSessionProgress(i, selectedAnswers)
                                        ELSE sessionsQ
    /\ UNCHANGED <<sessions, exam, examsQ, nextAttempt, quizOpen, sessionId,
                   sessionType, selectedAnswers, quizCompleted, completion, examPage>>

\* practice mode, the Validate button (handleValidateOrNext with showResult false)
handleShowResult ==
    /\ Answering
    /\ sessionType # "exam"
    /\ ~showResult
    /\ (currentIndex + 1) \in DOMAIN selectedAnswers   \* disabled={!selectedAnswerId}
    /\ showResult' = TRUE
    /\ UNCHANGED <<sessions, exam, sessionsQ, examsQ, nextAttempt, quizOpen, sessionId,
                   sessionType, currentIndex, selectedAnswers, quizCompleted,
                   completion, examPage>>

\* the grid button of the header: setShowQuickNav(!showQuickNav)
toggleQuickNav ==
    /\ Answering
    /\ showQuickNav' = ~showQuickNav
    /\ UNCHANGED quizVars

\* the questions whose button in the quick-navigation grid is drawn with the
\* class of a correct (TRUE) or an incorrect (FALSE) answer: isAnswered && !isCurrent
GridMarks ==
    IF Answering /\ showQuickNav
    THEN [q \in {x \in DOMAIN selectedAnswers : x # currentIndex + 1} |->
             selectedAnswers[q] = CorrectAnswer(q)]
    ELSE [q \in {} |-> TRUE]

\* the question card marks the correct answer and a wrong selection: showResult
CardMarks == Answering /\ showResult

\* QuizTimer onTimeUp: the countdown of an exam session reaches 0
TimeUp ==
    /\ Answering
    /\ sessionType = "exam"
    /\ Complete

----------------------------------------------------------------------------
(* The database executes the oldest request on store "sessions" and the     *)
(* flow that issued it runs on to its next await.                           *)

\* saveSessionProgress after getSession: the record it writes back
SavedProgress(session, idx, answers) ==
    [session EXCEPT !.currentIndex = idx, !.userAnswers = ToUserAnswers(answers)]

\* handleQuizCompletion after getSession: completedSession
CompletedSession(session) == [session EXCEPT !.status = "COMPLETED"]

SaveGet(r) ==
    /\ r.flow = "save" /\ r.op = "get"
    /\ sessionsQ' =
          IF sessions[r.sid].exists
             THEN Append(Tail(sessionsQ),
                         Request("save", "put", r.sid, r.idx, r.answers,
                                 SavedProgress(sessions[r.sid], r.idx, r.answers),
                                 NoExam))
             ELSE Tail(sessionsQ)
    /\ UNCHANGED <<sessions, exam, examsQ, nextAttempt, pageVars, completion, examPage>>

SavePut(r) ==
    /\ r.flow = "save" /\ r.op = "put"
    /\ sessions' = [sessions EXCEPT ![r.sid] = r.session]
    /\ sessionsQ' = Tail(sessionsQ)
    /\ UNCHANGED <<exam, examsQ, nextAttempt, pageVars, completion, examPage>>

CompleteGet(r) ==
    /\ r.flow = "complete" /\ r.op = "get"
    /\ IF sessions[r.sid].exists
          THEN /\ sessionsQ' =
                     Append(Tail(sessionsQ),
                            Request("complete", "put", r.sid, 0, NoAnswers,
                                    CompletedSession(sessions[r.sid]), NoExam))
               /\ completion' = completion
          ELSE /\ sessionsQ' = Tail(sessionsQ)
               /\ completion' = [completion EXCEPT !.pc = "done"]
    /\ UNCHANGED <<sessions, exam, examsQ, nextAttempt, pageVars, examPage>>

CompletePut(r) ==
    /\ r.flow = "complete" /\ r.op = "put"
    /\ sessions' = [sessions EXCEPT ![r.sid] = r.session]
    /\ sessionsQ' = Tail(sessionsQ)
    /\ completion' = [completion EXCEPT !.pc = "stats", !.session = r.session]
    /\ UNCHANGED <<exam, examsQ, nextAttempt, pageVars, examPage>>

\* handleRetakeExam: the new session is stored, then saveExam({...exam, lastAttemptAt})
RetakePutSession(r) ==
    /\ r.flow = "retake" /\ r.op = "put"
    /\ sessions' = [sessions EXCEPT ![r.sid] = r.session]
    /\ sessionsQ' = Tail(sessionsQ)
    /\ examsQ' = Append(examsQ, Request("retake", "put", r.sid, 0, NoAnswers,
                                        NoSession, r.exam))
    /\ UNCHANGED <<exam, nextAttempt, pageVars, completion, examPage>>

\* handleQuizCompletion: statisticsService.init() and updateFromSession, then
\* saveExamAttempt asks for the exam of an exam session
UpdateStatistics ==
    /\ completion.pc = "stats"
    /\ IF completion.session.type = "exam" /\ completion.session.examId
          THEN /\ examsQ' = Append(examsQ, Request("complete", "get", completion.sid, 0,
                                                   NoAnswers, completion.session, NoExam))
               /\ completion' =
                     [completion EXCEPT !.pc = "exam", !.session = NoSession,
                         !.sessionScore = UpdateSessionScore(completion.session)]
          ELSE /\ examsQ' = examsQ
               /\ completion' =
                     [completion EXCEPT !.pc = "done", !.session = NoSession,
                         !.sessionScore = UpdateSessionScore(completion.session)]
    /\ UNCHANGED <<sessions, exam, sessionsQ, nextAttempt, pageVars, examPage>>

----------------------------------------------------------------------------
(* The database executes the oldest request on store "exams".               *)

AttemptGet(r) ==
    /\ r.flow = "complete" /\ r.op = "get"
    /\ IF exam.exists
          THEN /\ examsQ' =
                     Append(Tail(examsQ),
                            Request("complete", "put", r.sid, 0, NoAnswers, r.session,
                                    UpdatedExam(exam, r.session, r.sid, nextAttempt)))
               /\ nextAttempt' = nextAttempt + 1
               /\ completion' = [completion EXCEPT
                                    !.score = AttemptScore(r.session),
                                    !.attemptId = nextAttempt]
          ELSE /\ examsQ' = Tail(examsQ)
               /\ nextAttempt' = nextAttempt
               /\ completion' = [completion EXCEPT !.pc = "done"]
    /\ UNCHANGED <<sessions, exam, sessionsQ, pageVars, examPage>>

AttemptPut(r) ==
    /\ r.flow = "complete" /\ r.op = "put"
    /\ exam' = r.exam
    /\ examsQ' = Tail(examsQ)
    /\ completion' = [completion EXCEPT !.pc = "done", !.saved = TRUE]
    /\ UNCHANGED <<sessions, sessionsQ, nextAttempt, pageVars, examPage>>

\* handleRetakeExam: the exam of the page's list is written back, then the page
\* navigates to the quiz
RetakePutExam(r) ==
    /\ r.flow = "retake" /\ r.op = "put"
    /\ exam' = r.exam
    /\ examsQ' = Tail(examsQ)
    /\ examPage' = ClosedExamPage
    /\ UNCHANGED <<sessions, sessionsQ, nextAttempt, pageVars, completion>>

\* loadSavedExams / loadExams: getAllExams answers
ExamsLoaded(r) ==
    /\ r.flow = "examPage" /\ r.op = "getAll"
    /\ examPage' = [loaded |-> TRUE, exam |-> exam, busy |-> FALSE]
    /\ examsQ' = Tail(examsQ)
    /\ UNCHANGED <<sessions, exam, sessionsQ, nextAttempt, pageVars, completion>>

\* an exam page is opened: it asks for the saved exams
OpenExamPage ==
    /\ ~examPage.busy
    /\ exam.exists
    /\ examPage' = [loaded |-> FALSE, exam |-> NoExam, busy |-> TRUE]
    /\ examsQ' = Append(examsQ, Request("examPage", "getAll", 0, 0, NoAnswers,
                                        NoSession, NoExam))
    /\ UNCHANGED <<sessions, exam, sessionsQ, nextAttempt, pageVars, completion>>

\* handleRetakeExam(exam) on an exam of the loaded list
handleRetakeExam ==
    /\ examPage.loaded /\ ~examPage.busy
    /\ examPage.exam.exists
    /\ UnusedSessionIds # {}
    /\ examPage' = [examPage EXCEPT !.busy = TRUE]
    /\ sessionsQ' = Append(sessionsQ,
                           Request("retake", "put", MinOf(UnusedSessionIds), 0,
                                   NoAnswers, NewSession("exam"), examPage.exam))
    /\ UNCHANGED <<sessions, exam, examsQ, nextAttempt, pageVars, completion>>

\* the request a store executes next: the oldest one waiting on it
Oldest(queue) == IF queue = <<>> THEN {} ELSE {Head(queue)}

QuizNext ==
    \/ StartExam /\ UNCHANGED otherThanQuiz
    \/ StartPractice /\ UNCHANGED otherThanQuiz
    \/ \E s \in SessionIds : OpenQuiz(s) /\ UNCHANGED otherThanQuizNav
    \/ UnloadQuiz /\ UNCHANGED otherThanQuizNav
    \/ toggleQuickNav /\ UNCHANGED otherThanQuizNav
    \/ \E a \in Answers : handleAnswerSelect(a) /\ UNCHANGED otherThanQuiz
    \/ handleNext /\ UNCHANGED otherThanQuiz
    \/ handlePrevious /\ UNCHANGED otherThanQuiz
    \/ \E i \in 0 .. (NumQuestions - 1) : handleGoToQuestion(i) /\ UNCHANGED otherThanQuizNav
    \/ handleShowResult /\ UNCHANGED otherThanQuiz
    \/ TimeUp /\ UNCHANGED otherThanQuiz
    \/ \E r \in Oldest(sessionsQ) : SaveGet(r) /\ UNCHANGED otherThanQuiz
    \/ \E r \in Oldest(sessionsQ) : SavePut(r) /\ UNCHANGED otherThanQuiz
    \/ \E r \in Oldest(sessionsQ) : CompleteGet(r) /\ UNCHANGED otherThanQuiz
    \/ \E r \in Oldest(sessionsQ) : CompletePut(r) /\ UNCHANGED otherThanQuiz
    \/ \E r \in Oldest(sessionsQ) : RetakePutSession(r) /\ UNCHANGED otherThanQuiz
    \/ UpdateStatistics /\ UNCHANGED otherThanQuiz
    \/ \E r \in Oldest(examsQ) : AttemptGet(r) /\ UNCHANGED otherThanQuiz
    \/ \E r \in Oldest(examsQ) : AttemptPut(r) /\ UNCHANGED otherThanQuiz
    \/ \E r \in Oldest(examsQ) : RetakePutExam(r) /\ UNCHANGED otherThanQuiz
    \/ \E r \in Oldest(examsQ) : ExamsLoaded(r) /\ UNCHANGED otherThanQuiz
    \/ OpenExamPage /\ UNCHANGED otherThanQuiz
    \/ handleRetakeExam /\ UNCHANGED otherThanQuiz

\* a practice quiz, with the history of the questions whose result was shown
ReviewNext ==
    \/ StartPractice /\ UNCHANGED otherThanQuiz
    \/ \E s \in SessionIds : OpenQuiz(s) /\ shownFor' = {} /\ UNCHANGED otherThanQuizNavHist
    \/ toggleQuickNav /\ UNCHANGED otherThanQuizNav
    \/ \E a \in Answers : handleAnswerSelect(a) /\ UNCHANGED otherThanQuiz
    \/ handleNext /\ UNCHANGED otherThanQuiz
    \/ handlePrevious /\ UNCHANGED otherThanQuiz
    \/ \E i \in 0 .. (NumQuestions - 1) : handleGoToQuestion(i) /\ UNCHANGED otherThanQuizNav
    \/ handleShowResult /\ shownFor' = shownFor \cup {currentIndex + 1}
                        /\ UNCHANGED otherThanQuizHist
    \/ \E r \in Oldest(sessionsQ) : SaveGet(r) /\ UNCHANGED otherThanQuiz
    \/ \E r \in Oldest(sessionsQ) : SavePut(r) /\ UNCHANGED otherThanQuiz
    \/ \E r \in Oldest(sessionsQ) : CompleteGet(r) /\ UNCHANGED otherThanQuiz
    \/ \E r \in Oldest(sessionsQ) : CompletePut(r) /\ UNCHANGED otherThanQuiz
    \/ UpdateStatistics /\ UNCHANGED otherThanQuiz

----------------------------------------------------------------------------
(* Favorites, settings, backup (export / import) and reset.                 *)

MaxToggles == 2     \* handleToggleFavorite calls in flight at once

\* an optional value: <<>> is undefined / null, <<v>> is v
None == <<>>

Some(v) == <<v>>

\* a function without / with the entry of key k
Without(f, k) == [x \in (DOMAIN f) \ {k} |-> f[x]]

With(f, k, v) == [x \in (DOMAIN f) \cup {k} |-> IF x = k THEN v ELSE f[x]]

\* handleToggleFavorite: questionWithCorrectAnswer, the record it stores. The
\* question comes from the stored session and carries createdAt as a Date.
FavoriteRecord(q) ==
    [id |-> q, selectedAnswerId |-> CorrectAnswer(q), createdAt |-> "Date"]

DEFAULT_SETTINGS ==
    [model |-> "default", onboardingCompleted |-> FALSE, updatedAt |-> "Date"]

Models == {"default", "custom"}

\* StorageService.getSettings: the cache, else the store, else the defaults
getSettings ==
    IF settingsCache # None THEN settingsCache[1]
    ELSE IF settingsStore # None THEN settingsStore[1]
    ELSE DEFAULT_SETTINGS

\* StorageService.getSettings: the cache it leaves behind
CacheAfterGet == IF settingsCache # None THEN settingsCache ELSE settingsStore

\* StorageService.isOnboardingCompleted
isOnboardingCompleted == getSettings.onboardingCompleted

\* JSON.parse(JSON.stringify(v)) of a record with a Date: the date comes back as
\* a string
JsonDate(v) == [v EXCEPT !.updatedAt = "string"]

JsonFavorite(r) == [r EXCEPT !.createdAt = "string"]

\* IndexedDBService.exportData followed by JSON.parse: undefined settings are
\* left out of the JSON text
ExportedData ==
    [settings |-> IF settingsStore = None THEN None
                  ELSE Some(JsonDate(settingsStore[1])),
     favorites |-> [q \in DOMAIN favStore |-> JsonFavorite(favStore[q])]]

NotToggled == [base |-> <<>>, q |-> 0, clicks |-> 0]

DataInit ==
    /\ favStore = <<>>
    /\ favorites = {}
    /\ favQ = <<>>
    /\ toggled = NotToggled
    /\ settingsStore = None
    /\ settingsCache = None
    /\ exported = None
    /\ route = "onboarding"
    /\ lastDataOp = "none"

\* loadSession: setFavorites(new Set(allFavorites.map(q => q.id)))
loadFavorites ==
    /\ favQ = <<>>
    /\ favorites # DOMAIN favStore
    /\ favorites' = DOMAIN favStore
    /\ toggled' = NotToggled
    /\ UNCHANGED <<favStore, favQ, settingsStore, settingsCache, exported, route,
                   lastDataOp>>

\* handleToggleFavorite up to its await, q the question shown: the request is
\* chosen from the favorites Set of the render the click happened in
handleToggleFavorite(q) ==
    /\ Len(favQ) < MaxToggles
    /\ favQ' = Append(favQ,
                      IF q \in favorites
                         THEN [op |-> "remove", q |-> q,
                               newFavorites |-> favorites \ {q}]
                         ELSE [op |-> "add", q |-> q,
                               newFavorites |-> favorites \cup {q}])
    /\ toggled' = IF toggled.clicks = 1 /\ toggled.q = q
                     THEN [toggled EXCEPT !.clicks = 2]
                     ELSE IF favQ = <<>>
                             THEN [base |-> favStore, q |-> q, clicks |-> 1]
                             ELSE NotToggled
    /\ UNCHANGED <<favStore, favorites, settingsStore, settingsCache, exported,
                   route, lastDataOp>>

\* addFavorite / removeFavorite executes and handleToggleFavorite runs on:
\* setFavorites(newFavorites)
FavoriteStored ==
    /\ favQ # <<>>
    /\ favStore' = IF Head(favQ).op = "add"
                      THEN With(favStore, Head(favQ).q, FavoriteRecord(Head(favQ).q))
                      ELSE Without(favStore, Head(favQ).q)
    /\ favorites' = Head(favQ).newFavorites
    /\ favQ' = Tail(favQ)
    /\ lastDataOp' = "favorite"
    /\ UNCHANGED <<toggled, settingsStore, settingsCache, exported, route>>

\* StorageService.saveSettings
SettingsSaved(new) ==
    /\ settingsStore' = Some([new EXCEPT !.updatedAt = "Date"])
    /\ settingsCache' = settingsStore'
    /\ lastDataOp' = "settings"

\* onboarding page handleComplete, then router.push("/")
handleComplete(m) ==
    /\ route = "onboarding"
    /\ SettingsSaved([DEFAULT_SETTINGS EXCEPT !.model = m,
                                              !.onboardingCompleted = TRUE])
    /\ route' = "dashboard"
    /\ UNCHANGED <<favStore, favorites, favQ, toggled, exported>>

openSettings ==
    /\ route = "dashboard"
    /\ route' = "settings"
    /\ UNCHANGED <<favStore, favorites, favQ, toggled, settingsStore, settingsCache,
                   exported, lastDataOp>>

\* settings page handleSave
handleSave(m) ==
    /\ route = "settings"
    /\ SettingsSaved([DEFAULT_SETTINGS EXCEPT !.model = m,
                                              !.onboardingCompleted = TRUE])
    /\ UNCHANGED <<favStore, favorites, favQ, toggled, exported, route>>

\* settings page handleExport: the file holds exportData(); atExport remembers
\* what getSettings returned then
handleExport ==
    /\ route = "settings"
    /\ favQ = <<>>
    /\ exported = None                \* one backup file is followed
    /\ exported' = Some([data |-> ExportedData,
                         settingsAtExport |-> getSettings,
                         favoritesAtExport |-> favStore])
    /\ UNCHANGED <<favStore, favorites, favQ, toggled, settingsStore, settingsCache,
                   route, lastDataOp>>

\* IndexedDBService.importData: saveSettings when the file holds settings, then
\* addFavorite for each favorite of the file
ImportedFavorites(data) ==
    [q \in (DOMAIN favStore) \cup (DOMAIN data.favorites) |->
        IF q \in DOMAIN data.favorites THEN data.favorites[q] ELSE favStore[q]]

\* settings page handleImport of the exported file, then window.location.reload()
handleImport ==
    /\ route = "settings"
    /\ favQ = <<>>
    /\ exported # None
    /\ settingsStore' = IF exported[1].data.settings # None
                           THEN exported[1].data.settings
                           ELSE settingsStore
    /\ favStore' = ImportedFavorites(exported[1].data)
    /\ settingsCache' = None
    /\ toggled' = NotToggled
    /\ lastDataOp' = "import"
    /\ UNCHANGED <<favorites, favQ, exported, route>>

\* settings page handleImport of the exported file after it was edited so that an
\* entry behind the settings is rejected (a favorite without id: put throws):
\* importData has saved the settings when it throws; handleImport alerts and does
\* not reload, so StorageService keeps its cache
handleImportRejected ==
    /\ route = "settings"
    /\ favQ = <<>>
    /\ exported # None
    /\ exported[1].data.settings # None
    /\ settingsStore' = exported[1].data.settings
    /\ lastDataOp' = "importRejected"
    /\ UNCHANGED <<favStore, favorites, favQ, toggled, settingsCache, exported, route>>

\* settings page handleClearData, confirmed: storageService.clearAllData(), that is
\* IndexedDBService.clearAll() and clearCache(), then the onboarding page
handleClearData ==
    /\ route = "settings"
    /\ favQ = <<>>
    /\ sessionsQ = <<>> /\ examsQ = <<>>
    /\ sessions' = [s \in SessionIds |-> NoSession]
    /\ exam' = NoExam
    /\ favStore' = <<>>
    /\ settingsCache' = None
    /\ toggled' = NotToggled
    /\ route' = "onboarding"
    /\ lastDataOp' = "clear"
    /\ UNCHANGED <<favorites, favQ, settingsStore, exported>>
    /\ UNCHANGED <<sessionsQ, examsQ, nextAttempt, pageVars, completion, examPage>>

\* OnboardingPage checkOnboarding
checkOnboarding ==
    /\ route = "onboarding"
    /\ isOnboardingCompleted
    /\ settingsCache' = CacheAfterGet
    /\ route' = "dashboard"
    /\ UNCHANGED <<favStore, favorites, favQ, toggled, settingsStore, exported,
                   lastDataOp>>

\* a session and an exam are stored from the dashboard
Stored(start) ==
    /\ route = "dashboard"
    /\ start
    /\ lastDataOp' = "session"
    /\ UNCHANGED <<favStore, favorites, favQ, toggled, settingsStore, settingsCache,
                   exported, route>>

DataNext ==
    \/ loadFavorites /\ UNCHANGED otherThanData
    \/ \E q \in Questions : handleToggleFavorite(q) /\ UNCHANGED otherThanData
    \/ FavoriteStored /\ UNCHANGED otherThanData
    \/ \E m \in Models : handleComplete(m) /\ UNCHANGED otherThanData
    \/ openSettings /\ UNCHANGED otherThanData
    \/ \E m \in Models : handleSave(m) /\ UNCHANGED otherThanData
    \/ handleExport /\ UNCHANGED otherThanData
    \/ handleImport /\ UNCHANGED otherThanData
    \/ handleImportRejected /\ UNCHANGED otherThanData
    \/ handleClearData /\ UNCHANGED otherThanDataQuiz
    \/ checkOnboarding /\ UNCHANGED otherThanData
    \/ Stored(StartExam) /\ UNCHANGED otherThanDataQuiz

----------------------------------------------------------------------------
----------------------------------------------------------------------------
(* The response parsers, on one item of the provider's JSON array.          *)

MaxOptions == 5     \* most answer options an item carries

Parsers == {"gemini", "openrouter", "geminiMulti"}

\* an answer option of the provider, by the key that marks it correct
OptionMarks == {"isCorrect", "correct", "none"}

OptionLists == UNION {[1 .. n -> OptionMarks] : n \in 0 .. MaxOptions}

\* the items a provider can send: question / domain present or not, answers
\* missing, not an array, or an array of options
Items ==
    [question : BOOLEAN, domain : BOOLEAN, answersKind : {"missing", "notArray"},
     answers : {<<>>}]
    \cup
    [question : BOOLEAN, domain : BOOLEAN, answersKind : {"array"},
     answers : OptionLists]

\* a.isCorrect || false (Gemini), a.isCorrect || a.correct || false (OpenRouter)
MarkedCorrect(p, mark) ==
    IF p = "openrouter" THEN mark \in {"isCorrect", "correct"}
                        ELSE mark = "isCorrect"

\* the structure check of the parsers
ValidStructure(p, it) ==
    /\ it.question
    /\ it.answersKind = "array"
    /\ p = "geminiMulti" => it.domain

ParseFailure == [ok |-> FALSE, answers |-> <<>>]

\* parseQuestionsFromResponse / parseMultiDomainQuestions on one item: the
\* Question (its answers' isCorrect flags), or the failure of the parse
ParseItem(p, it) ==
    IF ValidStructure(p, it)
        THEN [ok |-> TRUE,
              answers |-> [k \in 1 .. Len(it.answers) |-> MarkedCorrect(p, it.answers[k])]]
        ELSE ParseFailure

NoItem ==
    [question |-> FALSE, domain |-> FALSE, answersKind |-> "missing", answers |-> <<>>]

ParseInit ==
    /\ parser = "gemini"
    /\ item = NoItem
    /\ parsed = None

\* a provider response reaches a parser
Respond(p, it) ==
    /\ parsed = None /\ item = NoItem
    /\ parser' = p
    /\ item' = it
    /\ parsed' = None
    /\ UNCHANGED otherThanParse

\* the parser maps the item
Parse ==
    /\ parsed = None
    /\ parsed' = Some(ParseItem(parser, item))
    /\ UNCHANGED <<parser, item>>
    /\ UNCHANGED otherThanParse

\* the caller takes the questions, or the error
ParseReturn ==
    /\ parsed # None
    /\ parser' = "gemini"
    /\ item' = NoItem
    /\ parsed' = None
    /\ UNCHANGED otherThanParse

ParseNext ==
    \/ \E p \in Parsers, it \in Items : Respond(p, it)
    \/ Parse
    \/ ParseReturn

----------------------------------------------------------------------------
(* The practice page: handleGenerate, step by step.                         *)

MIN_QUESTIONS == 5

\* the awaits of handleGenerate inside its try block, in order
GenerateSteps ==
    {"init", "settings", "createTask", "markGenerating", "generate", "saveSession",
     "markReady", "notify"}

IdlePractice ==
    [pc |-> "idle", isGenerating |-> FALSE, alertShown |-> FALSE, questionCount |-> 0,
     generatedQuestions |-> 0, notificationsEnabled |-> FALSE, taskId |-> FALSE,
     failedAt |-> "none",
     \* NotificationService.permission, and the BackgroundTask record of taskId
     permission |-> "default", taskStatus |-> "none", taskSession |-> FALSE,
     sessionStored |-> FALSE, notified |-> 0]

PracticeInit == practice = IdlePractice

\* the Generate button (enabled by canStart)
handleGenerate(n, permission) ==
    /\ practice.pc = "idle"
    /\ ~practice.isGenerating
    /\ n >= MIN_QUESTIONS
    /\ practice' = [IdlePractice EXCEPT !.pc = "init", !.isGenerating = TRUE,
                                        !.questionCount = n, !.permission = permission]
    /\ UNCHANGED otherThanPractice

Permissions == {"default", "granted", "denied"}

\* NotificationService.isEnabled
isEnabled(p) == p.permission = "granted"

\* the step after the one that just succeeded
AfterStep(p, enabled) ==
    CASE p.pc = "init" -> [p EXCEPT !.pc = "settings"]
      [] p.pc = "settings" ->
            [p EXCEPT !.notificationsEnabled = enabled,
                      !.pc = IF enabled THEN "createTask" ELSE "generate"]
      [] p.pc = "createTask" ->
            [p EXCEPT !.taskId = TRUE, !.taskStatus = "pending", !.pc = "markGenerating"]
      [] p.pc = "markGenerating" ->
            [p EXCEPT !.taskStatus = "generating", !.taskSession = FALSE, !.pc = "generate"]
      [] p.pc = "generate" ->
            \* one more batch arrived: the progress callback; the last one returns
            LET got == Min(p.questionCount, p.generatedQuestions + BATCH_SIZE)
            IN  [p EXCEPT !.generatedQuestions = got,
                          !.pc = IF got = p.questionCount THEN "saveSession"
                                                          ELSE "generate"]
      [] p.pc = "saveSession" ->
            [p EXCEPT !.sessionStored = TRUE,
                      !.pc = IF p.taskId /\ p.notificationsEnabled THEN "markReady"
                                                                   ELSE "navigated"]
      \* updateTaskStatus(taskId, 'ready', sessionId): the task is saved ...
      [] p.pc = "markReady" ->
            [p EXCEPT !.taskStatus = "ready", !.taskSession = TRUE, !.pc = "notify"]
      \* ... and then sendQuizReadyNotification runs
      [] p.pc = "notify" ->
            [p EXCEPT !.notified = IF isEnabled(p) THEN p.notified + 1 ELSE p.notified,
                      !.pc = "navigated"]

\* an await of the try block resolves; enabled is settings.notifyOnComplete
GenerateStepDone(enabled) ==
    /\ practice.pc \in GenerateSteps
    /\ practice' = AfterStep(practice, enabled)
    /\ UNCHANGED otherThanPractice

\* an await of the try block rejects: control goes to the catch block
GenerateStepFails ==
    /\ practice.pc \in GenerateSteps
    \* without permission sendQuizReadyNotification returns at once
    /\ practice.pc = "notify" => isEnabled(practice)
    /\ practice' = [practice EXCEPT !.failedAt = practice.pc, !.pc = "catch"]
    /\ UNCHANGED otherThanPractice

\* the catch block runs to its end: the task is marked failed when there is one,
\* the page becomes idle and the alert is shown
CatchDone ==
    /\ practice.pc = "catch"
    /\ practice' = [practice EXCEPT
          !.pc = "idle", !.isGenerating = FALSE, !.generatedQuestions = 0,
          !.alertShown = TRUE,
          \* updateTaskStatus(taskId, 'failed', undefined, message)
          !.taskStatus = IF practice.taskId THEN "failed" ELSE practice.taskStatus,
          !.taskSession = FALSE]
    /\ UNCHANGED otherThanPractice

\* updateTaskStatus(taskId, 'failed') rejects inside the catch block: the promise
\* of handleGenerate rejects and the rest of the block does not run
CatchUpdateFails ==
    /\ practice.pc = "catch"
    /\ practice.taskId
    /\ practice' = [practice EXCEPT !.pc = "unhandled"]
    /\ UNCHANGED otherThanPractice

\* window.location.href = /quiz?session=...: the page is left; a later visit
\* starts from the initial state
LeavePractice ==
    /\ practice.pc \in {"navigated", "unhandled"}
    /\ practice' = IdlePractice
    /\ UNCHANGED otherThanPractice

PracticeNext ==
    \/ \E n \in MIN_QUESTIONS .. MaxCount : \E permission \in Permissions :
          handleGenerate(n, permission)
    \/ \E enabled \in BOOLEAN : GenerateStepDone(enabled)
    \/ GenerateStepFails
    \/ CatchDone
    \/ CatchUpdateFails
    \/ LeavePractice

----------------------------------------------------------------------------
(* The quiz timer: QuizTimer as the quiz page mounts it, one tick a second. *)

MaxCountUp == 3     \* seconds the count-up of a practice session is followed for

FULL_EXAM_LIMIT == 7200

DOMAIN_EXAM_LIMIT == 3600

ExamTypes == {"full", "domain"}

\* exam/page.tsx: const timeLimit = examType === "full" ? 7200 : 3600
TimeLimitOf(examType) ==
    IF examType = "full" THEN FULL_EXAM_LIMIT ELSE DOMAIN_EXAM_LIMIT

ClosedTimer ==
    [open |-> FALSE, sessionType |-> "practice", timeLimit |-> None, time |-> 0,
     showResult |-> FALSE, quizCompleted |-> FALSE]

TimerInit == timer = ClosedTimer

\* initialTime={timeLimit || 0}
InitialTime(limit) == IF limit = None THEN 0 ELSE limit[1]

\* mode={sessionType === "exam" ? "countdown" : "countup"}
TimerMode(type) == IF type = "exam" THEN "countdown" ELSE "countup"

\* isPaused={showResult}
isPaused == timer.showResult

\* the quiz page has loaded a session and renders QuizTimer: useState(initialTime)
MountedTimer(type, limit) ==
    [open |-> TRUE, sessionType |-> type, timeLimit |-> limit,
     time |-> InitialTime(limit), showResult |-> FALSE, quizCompleted |-> FALSE]

\* an exam session, as handleStartExam and handleRetakeExam store it
MountExam(examType) ==
    /\ ~timer.open
    /\ timer' = MountedTimer("exam", Some(TimeLimitOf(examType)))
    /\ UNCHANGED otherThanTimer

\* a practice session: stored without timeLimit
MountPractice ==
    /\ ~timer.open
    /\ timer' = MountedTimer("practice", None)
    /\ UNCHANGED otherThanTimer

\* the wrong direction for a countdown
NewTimeCountsUp(mode, prevTime) == prevTime + 1

\* const newTime = mode === "countdown" ? prevTime - 1 : prevTime + 1
NewTime(mode, prevTime) == IF mode = "countdown" THEN prevTime - 1 ELSE prevTime + 1

\* the setInterval callback of QuizTimer; onTimeUp is setQuizCompleted(true)
Tick ==
    /\ timer.open /\ ~timer.quizCompleted
    /\ ~isPaused
    /\ LET mode    == TimerMode(timer.sessionType)
           newTime == NewTime(mode, timer.time)
       IN  IF mode = "countdown" /\ newTime <= 0
           THEN timer' = [timer EXCEPT !.time = 0, !.quizCompleted = TRUE]
           ELSE /\ mode = "countup" => newTime <= MaxCountUp
                /\ timer' = [timer EXCEPT
                      !.time = newTime,
                      !.quizCompleted =
                          /\ mode = "countup"
                          /\ timer.timeLimit # None
                          /\ timer.timeLimit[1] # 0
                          /\ newTime >= timer.timeLimit[1]]
    /\ UNCHANGED otherThanTimer

\* the Valider button, rendered outside exam mode only: handleShowResult
ValidateShowsResult ==
    /\ timer.open /\ ~timer.quizCompleted
    /\ timer.sessionType # "exam"
    /\ ~timer.showResult
    /\ timer' = [timer EXCEPT !.showResult = TRUE]
    /\ UNCHANGED otherThanTimer

\* the Suivant / Terminer button: handleNext hides the result and, on the last
\* question, completes the quiz
NextHidesResult(last) ==
    /\ timer.open /\ ~timer.quizCompleted
    /\ timer.sessionType = "exam" \/ timer.showResult
    /\ timer' = IF last THEN [timer EXCEPT !.quizCompleted = TRUE]
                      ELSE [timer EXCEPT !.showResult = FALSE]
    /\ UNCHANGED otherThanTimer

\* the page is left or reloaded: the component state is gone
UnmountTimer ==
    /\ timer.open
    /\ timer' = ClosedTimer
    /\ UNCHANGED otherThanTimer

TimerNext ==
    \/ \E examType \in ExamTypes : MountExam(examType)
    \/ MountPractice
    \/ Tick
    \/ ValidateShowsResult
    \/ \E last \in BOOLEAN : NextHidesResult(last)
    \/ UnmountTimer

\* the quiz page is reloaded on the same session: loadSession reads the stored
\* session, whose timeLimit is what was stored at creation (saveSessionProgress
\* writes currentIndex and userAnswers only), and QuizTimer starts from it
ReloadQuiz ==
    /\ timer.open
    /\ timer' = MountedTimer(timer.sessionType, timer.timeLimit)
    /\ UNCHANGED otherThanTimer

ReloadNext ==
    \/ TimerNext
    \/ ReloadQuiz

----------------------------------------------------------------------------
(* The service worker: the fetch listener of sw.js over its three caches.    *)

\* a URL: host, the segments of its pathname, the extension of the last segment
\* and whether the query carries session / _rsc
Url(name, host, segments, ext, session, rsc) ==
    [name |-> name, host |-> host, segments |-> segments, ext |-> ext,
     session |-> session, rsc |-> rsc]

QuizUrl == Url("/quiz", "app", <<"quiz">>, "", FALSE, FALSE)

QuizSessionUrl == Url("/quiz?session", "app", <<"quiz">>, "", TRUE, FALSE)

OfflineUrl == Url("/offline", "app", <<"offline">>, "", FALSE, FALSE)

Urls ==
    { QuizUrl, QuizSessionUrl, OfflineUrl,
      Url("/practice?_rsc", "app", <<"practice">>, "", FALSE, TRUE),
      Url("/_next/static/chunk", "app", <<"_next", "static", "chunk">>, "", FALSE, FALSE),
      Url("/icon.png", "app", <<"icon.png">>, "png", FALSE, FALSE),
      Url("/api/data.js", "app", <<"api", "data.js">>, "js", FALSE, FALSE),
      Url("openrouter.ai/chat", "openrouter.ai", <<"chat">>, "", FALSE, FALSE),
      Url("fonts.gstatic.com/f.woff2", "fonts.gstatic.com", <<"f.woff2">>, "woff2", FALSE, FALSE) }

\* navigations are GETs that accept text/html
Requests ==
    { r \in [url : Urls, method : {"GET", "POST"}, acceptsHtml : BOOLEAN,
             mode : {"navigate", "cors"}] :
        r.mode = "navigate" => (r.method = "GET" /\ r.acceptsHtml) }

Statuses == {200, 404}

\* the response the network gives for a URL
Response(status, body) == [status |-> status, body |-> body]

NetFailure == [failed |-> TRUE]

\* what fetch(request) can do: reject, or resolve with a response of the server
NetOutcomes(url) ==
    {NetFailure} \cup { [failed |-> FALSE, response |-> Response(st, url.name)] : st \in Statuses }

StaticExtensions ==
    {"css", "js", "png", "jpg", "jpeg", "gif", "svg", "ico", "woff", "woff2", "ttf", "eot"}

FontHosts == {"fonts.googleapis.com", "fonts.gstatic.com"}

getRequestType(request) ==
    LET url == request.url
    IN  IF (Len(url.segments) >= 2 /\ url.segments[1] = "api") \/ url.host = "openrouter.ai"
        THEN "api"
        ELSE IF url.host \in FontHosts THEN "font"
        ELSE IF \E k \in 1 .. Len(url.segments) - 2 :
                    url.segments[k] = "_next" /\ url.segments[k + 1] = "static"
        THEN "static"
        ELSE IF url.ext \in StaticExtensions THEN "static"
        ELSE IF request.acceptsHtml THEN "document"
        ELSE IF url.rsc THEN "rsc-prefetch"
        ELSE "other"

createOfflineResponse == Response(503, "Offline - No cache available")

\* new Response('', {status: 503}) of the font branch
EmptyOfflineResponse == Response(503, "")

\* every status is stored
CacheableAlways(response) == TRUE

\* !( !response || response.status >= 400 )
Cacheable(response) == ~(response.status >= 400)

\* cache.match
CacheMatch(cache, url) == IF url \in DOMAIN cache THEN Some(cache[url]) ELSE None

\* cache.put
CachePut(cache, url, response) ==
    [u \in DOMAIN cache \cup {url} |-> IF u = url THEN response ELSE cache[u]]

\* caches.match: the caches in the order of their creation, the first entry found
CachesMatch(url) ==
    IF url \in DOMAIN coreCache THEN Some(coreCache[url])
    ELSE IF url \in DOMAIN staticCache THEN Some(staticCache[url])
    ELSE CacheMatch(runtimeCache, url)

EmptyCache == [u \in {} |-> Response(200, "")]

\* cache.addAll(urlsToCache) of the install event: the core pages, all fetched ok
InstalledCache == [u \in {QuizUrl, OfflineUrl} |-> Response(200, u.name)]

NoEvent == [responded |-> FALSE, fetched |-> FALSE, request |-> None, network |-> None,
            response |-> None]

\* the outcome of a fetch event: whether respondWith was called and with what,
\* whether the worker called fetch, and what the network did
Handled(request, net, responded, fetched, response) ==
    [responded |-> responded, fetched |-> fetched, request |-> Some(request),
     network |-> IF fetched THEN Some(net) ELSE None, response |-> response]

SWInit ==
    /\ coreCache = InstalledCache
    /\ staticCache = EmptyCache
    /\ runtimeCache = EmptyCache
    /\ handled = NoEvent

\* the offline page first, the base quiz page after it
FallbackOfflineFirst(request) ==
    LET offline == IF request.mode = "navigate" THEN CachesMatch(OfflineUrl) ELSE None
        base    == IF request.url.segments = <<"quiz">> /\ request.url.session
                   THEN CachesMatch(QuizUrl) ELSE None
    IN  IF CachesMatch(request.url) # None THEN CachesMatch(request.url)[1]
        ELSE IF offline # None THEN offline[1]
        ELSE IF base # None THEN base[1]
        ELSE createOfflineResponse

\* the catch of the document branch: what is served when the network failed
DocumentFallback(request) ==
    LET offline == IF request.mode = "navigate" THEN CachesMatch(OfflineUrl) ELSE None
    IN  IF CachesMatch(request.url) # None THEN CachesMatch(request.url)[1]
        ELSE IF request.url.segments = <<"quiz">> /\ request.url.session
                /\ CachesMatch(QuizUrl) # None
             THEN CachesMatch(QuizUrl)[1]
        ELSE IF offline # None THEN offline[1]
        ELSE createOfflineResponse

\* the fetch listener, whole, for one request; net is what fetch(request) does
\* when the worker calls it
FetchEvent(request, net) ==
    /\ handled = NoEvent
    /\ LET type == getRequestType(request)
           url  == request.url
           hit  == CacheMatch(staticCache, url)
       IN  IF request.method # "GET" \/ type = "api" \/ type = "rsc-prefetch"
           THEN /\ handled' = Handled(request, net, FALSE, FALSE, None)
                /\ UNCHANGED <<staticCache, runtimeCache>>
           ELSE IF type \in {"static", "font"}
           THEN IF hit # None
                THEN /\ handled' = Handled(request, net, TRUE, FALSE, hit)
                     /\ UNCHANGED <<staticCache, runtimeCache>>
                ELSE IF net.failed
                THEN /\ handled' = Handled(request, net, TRUE, TRUE,
                                       Some(IF type = "static" THEN createOfflineResponse
                                                               ELSE EmptyOfflineResponse))
                     /\ UNCHANGED <<staticCache, runtimeCache>>
                ELSE /\ handled' = Handled(request, net, TRUE, TRUE, Some(net.response))
                     /\ staticCache' = IF Cacheable(net.response)
                                       THEN CachePut(staticCache, url, net.response)
                                       ELSE staticCache
                     /\ UNCHANGED runtimeCache
           ELSE IF type = "document"
           THEN IF net.failed
                THEN /\ handled' = Handled(request, net, TRUE, TRUE,
                                           Some(DocumentFallback(request)))
                     /\ UNCHANGED <<staticCache, runtimeCache>>
                ELSE /\ handled' = Handled(request, net, TRUE, TRUE, Some(net.response))
                     /\ runtimeCache' = CachePut(runtimeCache, url, net.response)
                     /\ UNCHANGED staticCache
           ELSE /\ handled' =
                      Handled(request, net, TRUE, TRUE,
                              IF ~net.failed THEN Some(net.response)
                              ELSE IF CachesMatch(url) # None THEN CachesMatch(url)
                              ELSE Some(createOfflineResponse))
                /\ UNCHANGED <<staticCache, runtimeCache>>
    /\ UNCHANGED coreCache
    /\ UNCHANGED otherThanSW

\* the browser has delivered the outcome; the worker waits for the next event
EventDone ==
    /\ handled # NoEvent
    /\ handled' = NoEvent
    /\ UNCHANGED <<coreCache, staticCache, runtimeCache>>
    /\ UNCHANGED otherThanSW

\* the site's cache storage is cleared (by the browser or from its settings)
\* while the worker stays registered
ClearCaches ==
    /\ handled = NoEvent
    /\ coreCache # EmptyCache
    /\ coreCache' = EmptyCache
    /\ staticCache' = EmptyCache
    /\ runtimeCache' = EmptyCache
    /\ UNCHANGED handled
    /\ UNCHANGED otherThanSW

SWNext ==
    \/ \E request \in Requests : \E net \in NetOutcomes(request.url) : FetchEvent(request, net)
    \/ EventDone
    \/ ClearCaches

----------------------------------------------------------------------------
(* Statistics: StatisticsService over the stored sessions, and the exam     *)
(* history page (ExamsPage.handleViewDetails).                              *)

MaxUpdates == 2     \* completions (updateFromSession runs) that are followed

\* enum Domain: two of its ten values stand for the ten
Domain == {"MACHINE_LEARNING", "NLP"}

\* what a provider may put in q.domain: a value of the enum or another string
\* (parseMultiDomainQuestions warns about an unexpected domain and keeps it)
ProviderDomains == Domain \cup {"Machine Learning"}

\* the domains of the questions of a generated exam that are explored: the
\* first question carries any domain a provider may write
ExamDomains == {doms \in [Questions -> ProviderDomains] : \A q \in Questions \ {1} : doms[q] = "NLP"}

\* Math.round(a / b) for a >= 0, b > 0
RoundDiv(a, b) == (2 * a + b) \div (2 * b)

RECURSIVE SumOver(_, _)
SumOver(f, S) ==
    IF S = {} THEN 0
    ELSE LET x == CHOOSE y \in S : TRUE IN f[x] + SumOver(f, S \ {x})

\* allSessions.filter((s) => s.status === "COMPLETED")
completedSessions ==
    {s \in SessionIds : sessions[s].exists /\ sessions[s].status = "COMPLETED"}

AnsweredInDomain(session, doms, d) == {q \in AnsweredIn(session) : doms[q] = d}

CorrectInDomain(session, doms, d) == {q \in CorrectIn(session) : doms[q] = d}

\* Math.round((correctAnswers / questionsAnswered) * 100) of a domain
DomainAverage(correct, answered, otherwise) ==
    IF answered > 0 THEN RoundPercent(correct, answered) ELSE otherwise

\* StatisticsService.calculateFromScratch over the stored sessions
calculateFromScratch ==
    LET answered == [s \in SessionIds |-> Cardinality(DOMAIN sessions[s].userAnswers)]
        correct == [s \in SessionIds |-> Cardinality(CorrectIn(sessions[s]))]
        inDomain(d) ==
            [s \in SessionIds |->
                Cardinality(AnsweredInDomain(sessions[s], questionDomains[s], d))]
        correctInDomain(d) ==
            [s \in SessionIds |->
                Cardinality(CorrectInDomain(sessions[s], questionDomains[s], d))]
        scored == {s \in completedSessions : calculateSessionScore(sessions[s]) # {}}
        score == [s \in scored |->
                     CHOOSE v \in calculateSessionScore(sessions[s]) : TRUE]
    IN  [totalQuestionsAnswered |-> SumOver(answered, completedSessions),
         totalCorrectAnswers |-> SumOver(correct, completedSessions),
         totalExamsTaken |->
             Cardinality({s \in completedSessions : sessions[s].type = "exam"}),
         averageScore |->
             IF scored # {} THEN RoundDiv(SumOver(score, scored), Cardinality(scored))
                            ELSE 0,
         domainsProgress |->
             [d \in Domain |->
                 [questionsAnswered |-> SumOver(inDomain(d), completedSessions),
                  correctAnswers |-> SumOver(correctInDomain(d), completedSessions),
                  averageScore |->
                      DomainAverage(SumOver(correctInDomain(d), completedSessions),
                                    SumOver(inDomain(d), completedSessions), 0)]]]

\* updateFromSession: the domainsProgress entry of domain d after the session
DomainProgressAfter(entry, session, doms, d) ==
    [questionsAnswered |->
         entry.questionsAnswered + Cardinality(AnsweredInDomain(session, doms, d)),
     correctAnswers |->
         entry.correctAnswers + Cardinality(CorrectInDomain(session, doms, d)),
     averageScore |->
         DomainAverage(
             entry.correctAnswers + Cardinality(CorrectInDomain(session, doms, d)),
             IF AnsweredInDomain(session, doms, d) # {}
                THEN entry.questionsAnswered
                        + Cardinality(AnsweredInDomain(session, doms, d))
                ELSE 0,
             entry.averageScore)]

\* StatisticsService.updateFromSession(session) on the statistics st, with
\* totalSessions the result of getTotalCompletedSessions()
updateFromSession(st, session, doms, totalSessions) ==
    IF session.status # "COMPLETED" THEN st
    ELSE
    [totalQuestionsAnswered |->
         st.totalQuestionsAnswered + Cardinality(DOMAIN session.userAnswers),
     totalCorrectAnswers |->
         st.totalCorrectAnswers + Cardinality(CorrectIn(session)),
     totalExamsTaken |->
         st.totalExamsTaken + (IF session.type = "exam" THEN 1 ELSE 0),
     averageScore |->
         RoundDiv(st.averageScore * (totalSessions - 1) + UpdateSessionScore(session),
                  totalSessions),
     domainsProgress |->
         [d \in Domain |-> DomainProgressAfter(st.domainsProgress[d], session, doms, d)]]

\* StatisticsService.init() on the singleton: nothing once initialized, else the
\* saved statistics or, without any, calculateFromScratch()
init(svc) ==
    IF svc.initialized THEN svc
    ELSE [initialized |-> TRUE,
          stats |-> IF statistics # None THEN statistics ELSE Some(calculateFromScratch)]

\* the singleton of a document that has just been loaded
NewService == [initialized |-> FALSE, stats |-> None]

NoAttemptAnswers == [a \in {} |-> [userAnswers |-> NoAnswers, domains |-> <<>>]]

StatInit ==
    /\ statistics = None
    /\ service = NewService
    /\ questionDomains = [s \in SessionIds |-> <<>>]
    /\ attemptAnswers = NoAttemptAnswers
    /\ updated = [s \in SessionIds |-> 0]
    /\ appended = [s \in SessionIds |-> 0]

\* a document of the application is loaded: AppProvider.initializeServices runs
\* statisticsService.init() on a new singleton (init saves what it calculated)
AppProviderInit ==
    /\ service' = init(NewService)
    /\ statistics' = service'.stats

\* a page other than the quiz page is loaded (no quiz page is open)
AppLoad ==
    /\ ~quizOpen
    /\ AppProviderInit
    /\ UNCHANGED <<questionDomains, attemptAnswers, updated, appended>>

\* PracticePage.handleGenerate: the questions of a practice session carry the
\* domain that was asked for
GeneratePractice(d) ==
    /\ service.initialized
    /\ StartPractice
    /\ questionDomains' =
          [questionDomains EXCEPT ![MinOf(UnusedSessionIds)] = [q \in Questions |-> d]]
    /\ UNCHANGED <<statistics, service, attemptAnswers, updated, appended>>

\* ExamPage.handleStartExam, full exam: the questions carry the q.domain of the
\* provider's answer
GenerateExam(doms) ==
    /\ service.initialized
    /\ StartExam
    /\ questionDomains' = [questionDomains EXCEPT ![MinOf(UnusedSessionIds)] = doms]
    /\ UNCHANGED <<statistics, service, attemptAnswers, updated, appended>>

\* the page state loadSession sets from the stored session
LoadedFrom(s, session) ==
    /\ quizOpen' = TRUE
    /\ sessionId' = s
    /\ sessionType' = session.type
    /\ currentIndex' = session.currentIndex
    /\ selectedAnswers' = ToSelectedAnswers(session.userAnswers)
    /\ showResult' = FALSE
    /\ quizCompleted' = FALSE
    /\ showQuickNav' = FALSE
    /\ completion' = IdleCompletion

\* /quiz?session=s is loaded (navigation by window.location.href, or a reload):
\* AppProvider, then loadSession, whatever the status of the stored session
loadSession(s) ==
    /\ sessions[s].exists
    /\ SumOver(updated, SessionIds) < MaxUpdates
    /\ QuizQuiet
    /\ sessionsQ = <<>> /\ examsQ = <<>>
    /\ AppProviderInit
    /\ LoadedFrom(s, sessions[s])
    /\ UNCHANGED <<sessions, exam, sessionsQ, examsQ, nextAttempt, examPage>>
    /\ UNCHANGED <<questionDomains, attemptAnswers, updated, appended>>

\* handleQuizCompletion: statisticsService.init(), updateFromSession(completedSession)
\* (which saves), then the attempt of an exam session
UpdateFromSession ==
    /\ UpdateStatistics
    /\ service' =
          [initialized |-> TRUE,
           stats |-> Some(updateFromSession(init(service).stats[1], completion.session,
                                            questionDomains[completion.sid],
                                            Cardinality(completedSessions)))]
    /\ statistics' = service'.stats
    /\ updated' = [updated EXCEPT ![completion.sid] = @ + 1]
    /\ UNCHANGED <<questionDomains, attemptAnswers, appended>>

\* saveExamAttempt: saveExam(updatedExam) is executed; the attempt carries the
\* questions and the userAnswers of the session
SaveExamAttempt(r) ==
    /\ AttemptPut(r)
    /\ attemptAnswers' =
          With(attemptAnswers, r.exam.attempts[Len(r.exam.attempts)].id,
               [userAnswers |-> r.session.userAnswers,
                domains |-> questionDomains[r.sid]])
    /\ appended' = [appended EXCEPT ![r.sid] = @ + 1]
    /\ UNCHANGED <<statistics, service, questionDomains, updated>>

\* exam.attempts.find(a => a.id === exam.bestAttemptId) || exam.attempts[0]
BestAttempt(ex) ==
    IF \E k \in 1 .. Len(ex.attempts) : ex.attempts[k].id = ex.bestAttemptId
       THEN ex.attempts[CHOOSE k \in 1 .. Len(ex.attempts) :
                            ex.attempts[k].id = ex.bestAttemptId]
       ELSE ex.attempts[1]

\* the temporary session handleViewDetails stores
ViewSession(ex) ==
    [exists |-> TRUE, type |-> "exam", examId |-> TRUE,
     userAnswers |-> attemptAnswers[BestAttempt(ex).id].userAnswers,
     currentIndex |-> 0, status |-> "COMPLETED"]

\* ExamsPage.handleViewDetails(exam): the session is stored, then the quiz page
\* is loaded on it
handleViewDetails ==
    /\ service.initialized
    /\ examPage.loaded /\ ~examPage.busy
    /\ examPage.exam.exists
    /\ Len(examPage.exam.attempts) > 0
    /\ UnusedSessionIds # {}
    /\ SumOver(updated, SessionIds) < MaxUpdates
    /\ QuizQuiet
    /\ sessionsQ = <<>> /\ examsQ = <<>>
    /\ sessions' = [sessions EXCEPT ![MinOf(UnusedSessionIds)] = ViewSession(examPage.exam)]
    /\ questionDomains' =
          [questionDomains EXCEPT ![MinOf(UnusedSessionIds)] =
              attemptAnswers[BestAttempt(examPage.exam).id].domains]
    /\ AppProviderInit
    /\ LoadedFrom(MinOf(UnusedSessionIds), ViewSession(examPage.exam))
    /\ examPage' = ClosedExamPage
    /\ UNCHANGED <<exam, sessionsQ, examsQ, nextAttempt>>
    /\ UNCHANGED <<attemptAnswers, updated, appended>>

\* the exam history page is opened from the result screen of the quiz, or
\* while no quiz is open
OpenExamsPage ==
    /\ ~quizOpen \/ quizCompleted
    /\ QuizQuiet
    /\ OpenExamPage

StatNext ==
    \/ AppLoad /\ UNCHANGED <<quizVars, otherThanQuizStat>>
    \/ \E d \in Domain : GeneratePractice(d) /\ UNCHANGED otherThanQuizStat
    \/ \E doms \in ExamDomains : GenerateExam(doms) /\ UNCHANGED otherThanQuizStat
    \/ \E s \in SessionIds : loadSession(s) /\ UNCHANGED otherThanQuizNavStat
    \/ \E a \in Answers : handleAnswerSelect(a) /\ UNCHANGED otherThanQuiz
    \/ handleNext /\ UNCHANGED otherThanQuiz
    \/ handleShowResult /\ UNCHANGED otherThanQuiz
    \/ TimeUp /\ UNCHANGED otherThanQuiz
    \/ \E r \in Oldest(sessionsQ) : SaveGet(r) /\ UNCHANGED otherThanQuiz
    \/ \E r \in Oldest(sessionsQ) : SavePut(r) /\ UNCHANGED otherThanQuiz
    \/ \E r \in Oldest(sessionsQ) : CompleteGet(r) /\ UNCHANGED otherThanQuiz
    \/ \E r \in Oldest(sessionsQ) : CompletePut(r) /\ UNCHANGED otherThanQuiz
    \/ UpdateFromSession /\ UNCHANGED otherThanQuizStat
    \/ \E r \in Oldest(examsQ) : AttemptGet(r) /\ UNCHANGED otherThanQuiz
    \/ \E r \in Oldest(examsQ) : SaveExamAttempt(r) /\ UNCHANGED otherThanQuizStat
    \/ \E r \in Oldest(examsQ) : ExamsLoaded(r) /\ UNCHANGED otherThanQuiz
    \/ OpenExamsPage /\ UNCHANGED otherThanQuiz
    \/ handleViewDetails /\ UNCHANGED otherThanQuizNavStat

----------------------------------------------------------------------------
(* The update of the service worker: the registration script of RootLayout, *)
(* the ServiceWorkerUpdate banner and the install / message listeners of    *)
(* sw.js.  Versions of sw.js are numbered 1, 2, ...; 0 stands for none.     *)

MaxVersions == 4    \* versions of sw.js that are deployed

otherThanUpdate == <<genVars, quizVars, dataVars, parseVars, practiceVars, timerVars, swVars, navVars, histVars, statVars>>

NoPage == [loaded |-> FALSE, controller |-> 0, showUpdate |-> FALSE]

UpdateInit ==
    /\ registration = [latest |-> 1, installing |-> 0, waiting |-> 0, active |-> 0]
    /\ page = NoPage
    /\ swUpdateAvailable = FALSE
    /\ clicked = FALSE

\* the newest version the browser has fetched for this registration
Known == Max(registration.installing, Max(registration.waiting, registration.active))

\* ServiceWorkerUpdate mounts: useState(false), then the effect reads localStorage
MountedBanner == swUpdateAvailable

\* a document of the application is loaded; it is controlled by the active worker
PageLoad ==
    /\ page' = [loaded |-> TRUE, controller |-> registration.active,
                showUpdate |-> MountedBanner]
    /\ UNCHANGED <<registration, swUpdateAvailable, clicked>>
    /\ UNCHANGED otherThanUpdate

ClosePage ==
    /\ page.loaded
    /\ page' = NoPage
    /\ UNCHANGED <<registration, swUpdateAvailable, clicked>>
    /\ UNCHANGED otherThanUpdate

\* a new version of sw.js is published
Deploy ==
    /\ registration.latest < MaxVersions
    /\ registration' = [registration EXCEPT !.latest = @ + 1]
    /\ UNCHANGED <<page, swUpdateAvailable, clicked>>
    /\ UNCHANGED otherThanUpdate

\* navigator.serviceWorker.register('/sw.js') of a loaded page finds a version
\* it does not know: 'updatefound', registration.installing is the new worker
UpdateFound ==
    /\ page.loaded
    /\ registration.installing = 0
    /\ registration.latest > Known
    /\ registration' = [registration EXCEPT !.installing = registration.latest]
    /\ clicked' = FALSE
    /\ UNCHANGED <<page, swUpdateAvailable>>
    /\ UNCHANGED otherThanUpdate

\* the install event of the new worker is over: its state is 'installed'.  The
\* statechange listener of a loaded page that has a controller stores the item
\* and dispatches 'swUpdateAvailable', which the banner listens to
Installed ==
    /\ registration.installing # 0
    /\ registration' = [registration EXCEPT !.installing = 0,
                                            !.waiting = registration.installing]
    /\ IF page.loaded /\ page.controller # 0
          THEN /\ swUpdateAvailable' = TRUE
               /\ page' = [page EXCEPT !.showUpdate = TRUE]
          ELSE UNCHANGED <<swUpdateAvailable, page>>
    /\ UNCHANGED clicked
    /\ UNCHANGED otherThanUpdate

\* the installed worker becomes the active one (self.skipWaiting() in the
\* install listener, or on the SKIP_WAITING message) and claims the clients:
\* 'controllerchange' reloads a loaded page
Activate ==
    /\ registration.waiting # 0
    /\ registration' = [registration EXCEPT !.waiting = 0,
                                            !.active = registration.waiting]
    /\ page' = IF page.loaded
                  THEN [loaded |-> TRUE, controller |-> registration.waiting,
                        showUpdate |-> MountedBanner]
                  ELSE page
    /\ UNCHANGED <<swUpdateAvailable, clicked>>
    /\ UNCHANGED otherThanUpdate

\* 'update now': SKIP_WAITING is posted to registration.waiting if there is one,
\* and the page is reloaded
handleRefresh ==
    /\ page.loaded /\ page.showUpdate
    /\ page' = [loaded |-> TRUE, controller |-> registration.active,
                showUpdate |-> MountedBanner]
    /\ clicked' = TRUE
    /\ UNCHANGED <<registration, swUpdateAvailable>>
    /\ UNCHANGED otherThanUpdate

handleDismiss ==
    /\ page.loaded /\ page.showUpdate
    /\ page' = [page EXCEPT !.showUpdate = FALSE]
    /\ UNCHANGED <<registration, swUpdateAvailable, clicked>>
    /\ UNCHANGED otherThanUpdate

UpdateNext ==
    \/ PageLoad
    \/ ClosePage
    \/ Deploy
    \/ UpdateFound
    \/ Installed
    \/ Activate
    \/ handleRefresh
    \/ handleDismiss

----------------------------------------------------------------------------
Init == GenInit /\ QuizInit /\ DataInit /\ ParseInit /\ PracticeInit /\ TimerInit /\ SWInit
        /\ StatInit /\ UpdateInit

SpecGen == Init /\ [][GenNext]_vars

SpecQuiz == Init /\ [][QuizNext]_vars

SpecReview == Init /\ [][ReviewNext]_vars

SpecData == Init /\ [][DataNext]_vars

SpecParse == Init /\ [][ParseNext]_vars

SpecPractice == Init /\ [][PracticeNext]_vars

SpecTimer == Init /\ [][TimerNext]_vars

SpecReload == Init /\ [][ReloadNext]_vars

SpecSW == Init /\ [][SWNext]_vars

SpecStat == Init /\ [][StatNext]_vars

SpecUpdate == Init /\ [][UpdateNext]_vars

\* the browser runs the interval callback of a mounted, unpaused timer
FairSpecTimer == Init /\ [][TimerNext]_vars /\ WF_vars(Tick)

\* the provider answers the pending call (every provider call returns)
ProviderAnswers ==
    \/ \E f \in Failures : FetchFail(f)
    \/ gpc = "fetch" /\ \E b \in Bodies(BatchCount(batchIndex)) : FetchOk(b)

\* the event loop runs every continuation that is ready, timers fire, and the
\* provider answers every call
FairSpecGen ==
    /\ Init
    /\ [][GenNext]_vars
    /\ WF_vars(LoopStep)
    /\ WF_vars(Sleep)
    /\ WF_vars(ProviderAnswers)

----------------------------------------------------------------------------
(* Claims on the generation pipeline *)

Running == gpc \in {"loop", "fetch", "sleep"}

\* the call failed because a provider call failed on its last attempt
FailedOnProviderCall == gpc = "failed" /\ caught.kind # "none"

\* C1 as stated: a generateQuestions call that succeeds has issued exactly
\* ceil(N/B) provider calls, one per batch, the batch sizes being at most B and
\* summing to N.
C1_OneProviderCallPerBatch ==
    gpc = "done" =>
        /\ fetchCalls = Ceil(count, EffectiveBatch)
        /\ \A k \in 1 .. Len(requested) : requested[k] <= EffectiveBatch
        /\ SumSeq(requested) = count

\* C1 amended: a generateQuestions call that succeeds has made exactly ceil(N/B)
\* generateQuestionsBatch requests, one per batch, each for at least 1 and at most
\* B questions, the sizes summing to N; every batch costs between 1 and MAX_RETRIES
\* provider calls, so the call issues between ceil(N/B) and MAX_RETRIES * ceil(N/B)
\* provider calls.
C1_BatchesOfSuccessfulCall ==
    gpc = "done" =>
        /\ batchCalls = Ceil(count, EffectiveBatch)
        /\ Len(requested) = batchCalls
        /\ \A k \in 1 .. Len(requested) :
              requested[k] >= 1 /\ requested[k] <= EffectiveBatch
        /\ SumSeq(requested) = count
        /\ fetchCalls >= batchCalls
        /\ fetchCalls <= MAX_RETRIES * batchCalls

\* a successful call of several batches, the last one smaller, with a retried
\* provider call
C1_Witness ==
    /\ gpc = "done"
    /\ Len(requested) = 3
    /\ requested[3] < requested[1]
    /\ fetchCalls > batchCalls

\* C2: a generateQuestions call that returns successfully returns exactly N
\* questions, whatever number of items the provider returned in each batch.
C2_ReturnsExactlyN == gpc = "done" => allQuestions = count

\* C3 as stated: a failing provider call is retried up to three times, and only
\* when these retries are used up is its error propagated: the error of a failed
\* provider call reaches the caller after three backoff waits.
C3_ThreeRetriesBeforeError == FailedOnProviderCall => Len(waits) = 3

\* C3 amended: a provider call is attempted at most MAX_RETRIES = 3 times in all
\* (at most two retries); the wait before retry number i, counted from 0, is
\* BASE_DELAY * 2^i (1000 ms, then 2000 ms); the error of a failed call reaches the
\* caller only after the third attempt failed; and a successful attempt ends the
\* batch with no further provider call or wait for it.
C3_RetryWithBackoff ==
    /\ [](/\ attempt <= MAX_RETRIES - 1
          /\ Len(waits) = attempt
          /\ \A k \in 1 .. Len(waits) : waits[k] = BASE_DELAY * Pow2(k - 1)
          /\ (FailedOnProviderCall =>
                 attempt = MAX_RETRIES - 1 /\ waits = <<BASE_DELAY, 2 * BASE_DELAY>>))
    /\ [][gpc = "fetch" /\ gpc' = "loop" =>
             /\ fetchCalls' = fetchCalls + 1
             /\ batchIndex' = batchIndex + 1
             /\ waits' = waits
             /\ error' = NoError]_vars

\* a server error on each of the three attempts reached the caller
C3_Witness ==
    /\ FailedOnProviderCall
    /\ caught = [kind |-> "http", status |-> 500]
    /\ error.code = "SERVER_ERROR"
    /\ Len(waits) = 2
    /\ batchIndex = 1

AuthFailure == caught.kind = "http" /\ caught.status \in {401, 403}

\* C4: an error caused by missing or invalid credentials is surfaced immediately:
\* no backoff wait and no further provider call follows an HTTP 401/403 in the
\* batch, no provider call is made without a key, and the error that reaches the
\* caller has isRetryable = FALSE.
C4_CredentialErrorsNotRetried ==
    /\ (gpc = "sleep" => ~AuthFailure)
    /\ (gpc = "failed" /\ AuthFailure => attempt = 0 /\ ~error.isRetryable)
    /\ (gpc = "failed" /\ ~apiKey => fetchCalls = 0 /\ ~error.isRetryable)

\* C5: the error generateQuestionsBatch throws for a malformed or truncated JSON
\* response has isRetryable = TRUE, for both services.
C5_ParseFailureRetryable ==
    gpc = "failed" /\ bodyKind = "malformed" => error.isRetryable

\* C6: every generateQuestions call terminates when every provider call returns:
\* it ends in a result or an error, after at most MAX_RETRIES attempts per batch
\* and MAX_RETRIES * ceil(N/B) provider calls in all, and once a batch has used up
\* its attempts no later batch is requested.
C6_BoundedTermination ==
    /\ (Running ~> gpc \in {"done", "failed"})
    /\ [](/\ attempt < MAX_RETRIES
          /\ fetchCalls <= MAX_RETRIES * batchCalls
          /\ batchCalls <= Ceil(count, EffectiveBatch)
          /\ fetchCalls <= MAX_RETRIES * Ceil(count, EffectiveBatch)
          /\ (FailedOnProviderCall => batchCalls = batchIndex + 1))
    /\ [][gpc = "failed" => gpc' = "idle" /\ batchCalls' = 0 /\ fetchCalls' = 0]_vars

\* a call whose second batch used up its three attempts
C6_Witness ==
    /\ FailedOnProviderCall
    /\ batchIndex = 1
    /\ batchCalls = 2
    /\ batchCalls < Ceil(count, EffectiveBatch)
    /\ fetchCalls = 2 * MAX_RETRIES

----------------------------------------------------------------------------
(* Claims on the quiz runner *)

\* the completion flow of the session on screen ran to its end and stored an attempt
AttemptStored ==
    /\ quizOpen /\ quizCompleted
    /\ completion.sid = sessionId
    /\ completion.pc = "done" /\ completion.saved

\* C7: the score is round(correct / total * 100), and the result screen, the stored
\* ExamAttempt and the statistics' per-session score all show this same value,
\* unanswered questions included.
C7_ScoresAgree ==
    AttemptStored =>
        /\ completion.score = calculateScore
        /\ completion.sessionScore = calculateScore
        /\ \A v \in calculateSessionScore(sessions[sessionId]) : v = calculateScore

\* every flow the quiz page started on store "sessions" is over
SessionFlowsOver ==
    /\ quizOpen /\ quizCompleted
    /\ completion.sid = sessionId
    /\ completion.pc \in {"stats", "exam", "done"}
    /\ \A k \in 1 .. Len(sessionsQ) : sessionsQ[k].flow \notin {"save", "complete"}

\* C8: under every interleaving of saveSessionProgress and handleQuizCompletion the
\* session that ends up stored is COMPLETED and contains every selected answer.
C8_CompletedSessionKeepsAnswers ==
    SessionFlowsOver =>
        /\ sessions[sessionId].status = "COMPLETED"
        /\ ToSelectedAnswers(sessions[sessionId].userAnswers) = selectedAnswers

\* C9: the attempts list of a SavedExam only grows: no step removes a recorded
\* attempt, a retake started from an earlier loaded exam list included.
C9_AttemptsOnlyGrow ==
    [][\A k \in 1 .. Len(exam.attempts) :
          \E j \in 1 .. Len(exam'.attempts) : exam'.attempts[j] = exam.attempts[k]]_vars

AttemptScores(ex) == {ex.attempts[k].score : k \in 1 .. Len(ex.attempts)}

BestScoreIsMax(ex) ==
    /\ ex.bestScore \in AttemptScores(ex)
    /\ \A v \in AttemptScores(ex) : v <= ex.bestScore

BestAttemptIdentified(ex) ==
    \E k \in 1 .. Len(ex.attempts) :
        /\ ex.attempts[k].id = ex.bestAttemptId
        /\ ex.attempts[k].score = ex.bestScore

\* C10 as stated: whenever the attempts list is non-empty, bestScore is the maximum
\* score over the attempts and bestAttemptId is the id of an attempt with that score.
C10_BestAttemptAlwaysIdentified ==
    (exam.exists /\ exam.attempts # <<>>) =>
        BestScoreIsMax(exam) /\ BestAttemptIdentified(exam)

\* C10 as the code has it: whenever the attempts list is non-empty, bestScore is the
\* maximum score over the attempts; bestAttemptId is the id of an attempt with that
\* score when bestScore > 0, and is still empty when every attempt scored 0.
C10_BestAttemptIdentifiedAboveZero ==
    (exam.exists /\ exam.attempts # <<>>) =>
        /\ BestScoreIsMax(exam)
        /\ exam.bestScore > 0 => BestAttemptIdentified(exam)
        /\ exam.bestScore = 0 => exam.bestAttemptId = 0

\* two attempts are stored, the earlier one is the best and the later one is lower
C10_Witness ==
    /\ exam.exists
    /\ Len(exam.attempts) = 2
    /\ exam.attempts[1].score > exam.attempts[2].score
    /\ exam.bestAttemptId = exam.attempts[1].id

----------------------------------------------------------------------------
(* Claims on favorites, backup and reset *)

\* C11: toggling a question twice in the quiz page leaves the stored favorites
\* collection as it was before the first toggle (same ids, same record for each
\* id), whether or not the question was a favorite beforehand.
C11_ToggleTwiceRestores ==
    (toggled.clicks = 2 /\ favQ = <<>>) => favStore = toggled.base

\* equality of settings / favorites up to the text form JSON gives a date
SameSettings(a, b) == JsonDate(a) = JsonDate(b)

SameFavorites(f, g) ==
    /\ DOMAIN f = DOMAIN g
    /\ \A q \in DOMAIN f : JsonFavorite(f[q]) = JsonFavorite(g[q])

\* C12: after an export, any changes and an import of the exported file, the
\* settings getSettings returns and the favorites collection are those of the
\* time of the export.
C12_ImportRestoresExport ==
    lastDataOp = "import" =>
        /\ SameSettings(getSettings, exported[1].settingsAtExport)
        /\ SameFavorites(favStore, exported[1].favoritesAtExport)

\* C17: after 'delete all local data' no local data remains: the stores are empty,
\* getSettings returns the defaults, isOnboardingCompleted is false and the
\* onboarding page does not send the user back to the dashboard.
C17_ClearLeavesNoData ==
    lastDataOp = "clear" =>
        /\ \A s \in SessionIds : ~sessions[s].exists
        /\ ~exam.exists
        /\ favStore = <<>>
        /\ settingsStore = None
        /\ getSettings = DEFAULT_SETTINGS
        /\ ~isOnboardingCompleted
        /\ route = "onboarding"

----------------------------------------------------------------------------
(* Claims on reloading a session *)

\* the quiz page is loaded again for the session it last showed
ReloadsSameSession ==
    /\ sessionId # 0
    /\ sessionId' = sessionId
    /\ \E s \in SessionIds : OpenQuiz(s)

----------------------------------------------------------------------------
(* Claims on the response parsers *)

CorrectOptions(answers) == {k \in 1 .. Len(answers) : answers[k]}

\* C14: every Question the response parsers return has exactly 4 answer options of
\* which exactly one is marked correct; an item that does not satisfy this makes
\* the parse fail.
C14_FourOptionsOneCorrect ==
    (parsed # None /\ parsed[1].ok) =>
        /\ Len(parsed[1].answers) = 4
        /\ Cardinality(CorrectOptions(parsed[1].answers)) = 1

----------------------------------------------------------------------------
(* Claims on the practice page *)

\* handleGenerate is over (its promise settled) after one of its steps failed
GenerateFailedAndOver ==
    /\ practice.failedAt # "none"
    /\ practice.pc \in {"idle", "unhandled"}

\* C15: whatever step of handleGenerate fails (the task update of the error path
\* included), the page ends with isGenerating = false and the alert shown.
C15_FailureSurfacesAsAlert ==
    GenerateFailedAndOver => (~practice.isGenerating /\ practice.alertShown)

----------------------------------------------------------------------------
(* Claims on the quiz timer *)

ExamOpen == timer.open /\ timer.sessionType = "exam"

----------------------------------------------------------------------------
(* Claims on the service worker *)

\* this step is the fetch listener handling one event
JustHandled == handled = NoEvent /\ handled' # NoEvent

\* the entries the caches hold for a URL
EntriesFor(url) ==
    { cache[url] : cache \in { c \in {coreCache, staticCache, runtimeCache} :
                                  url \in DOMAIN c } }

C19_NetworkFirstForDocuments ==
    [][JustHandled =>
        LET h       == handled'
            request == h.request[1]
            url     == request.url
            quiz    == url.segments = <<"quiz">> /\ url.session
        IN  (request.method = "GET" /\ getRequestType(request) = "document") =>
                /\ h.responded /\ h.fetched
                /\ UNCHANGED <<coreCache, staticCache>>
                /\ IF ~h.network[1].failed
                   THEN /\ h.response = Some(h.network[1].response)
                        /\ DOMAIN runtimeCache' = DOMAIN runtimeCache \cup {url}
                        /\ runtimeCache'[url] = h.response[1]
                   ELSE /\ UNCHANGED runtimeCache
                        /\ IF EntriesFor(url) # {}
                           THEN h.response[1] \in EntriesFor(url)
                           ELSE IF quiz /\ EntriesFor(QuizUrl) # {}
                           THEN h.response[1] \in EntriesFor(QuizUrl)
                           ELSE IF request.mode = "navigate" /\ EntriesFor(OfflineUrl) # {}
                           THEN h.response[1] \in EntriesFor(OfflineUrl)
                           ELSE /\ h.response[1].status = 503
                                /\ h.response[1].body = "Offline - No cache available"]_vars

\* offline, a navigation to /quiz?session=... that was never cached got the
\* cached base /quiz page
C19_Witness ==
    /\ handled # NoEvent
    /\ handled.responded /\ handled.fetched
    /\ handled.network[1].failed
    /\ handled.request[1].url = QuizSessionUrl
    /\ handled.request[1].mode = "navigate"
    /\ QuizSessionUrl \notin DOMAIN runtimeCache
    /\ handled.response = Some(Response(200, "/quiz"))

----------------------------------------------------------------------------
(* Claims on exam mode *)

\* C20: while an exam session is being answered nothing shown reveals whether a
\* selected answer is correct: showResult stays false (the question card marks
\* nothing) and the quick-navigation grid marks no question as correct or
\* incorrect.
C20_ExamRevealsNothing ==
    (Answering /\ sessionType = "exam") =>
        /\ ~showResult
        /\ ~CardMarks
        /\ DOMAIN GridMarks = {}

----------------------------------------------------------------------------
(* Claims on practice mode *)

\* C21: in practice mode, once the result of a question has been shown, its
\* selected answer does not change any more while the quiz is being answered,
\* whatever Next, Previous and quick-navigation steps follow.
C21_ShownAnswerIsFinal ==
    [][(Answering /\ Answering' /\ sessionType = "practice" /\ sessionId' = sessionId) =>
          \A q \in shownFor \cap shownFor' : selectedAnswers'[q] = selectedAnswers[q]]_vars

----------------------------------------------------------------------------
(* Claims on background tasks *)

\* the moves of a task's status that the lifecycle allows
TaskMoves ==
    {<<"pending", "generating">>, <<"generating", "ready">>, <<"generating", "failed">>}

\* C22: a background task only goes pending -> generating -> (ready | failed),
\* ready and failed being final; it is ready only once its session is stored and
\* then carries the session id; the 'quiz ready' notification is sent at most
\* once, and only with the permission granted.
C22_TaskLifecycle ==
    /\ [](/\ practice.taskStatus = "ready" =>
                practice.sessionStored /\ practice.taskSession
          /\ practice.notified <= 1
          /\ practice.notified > 0 => practice.permission = "granted")
    /\ [][/\ (~practice.taskId /\ practice'.taskId) => practice'.taskStatus = "pending"
          /\ (practice.taskId /\ practice'.taskId
                /\ practice'.taskStatus # practice.taskStatus) =>
                 <<practice.taskStatus, practice'.taskStatus>> \in TaskMoves]_vars

----------------------------------------------------------------------------
(* Claims on the settings read by the generation services *)

\* C23: the settings a generation call reads (StorageService.getSettings) are
\* those of the record in the settings store whenever the store holds one: the
\* same model (and key, and batch size) and the same onboarding flag.
C23_SettingsReadFresh ==
    settingsStore # None =>
        /\ getSettings.model = settingsStore[1].model
        /\ getSettings.onboardingCompleted = settingsStore[1].onboardingCompleted

----------------------------------------------------------------------------
(* Claims on progress reports *)

\* C24: progress is reported once for each successful batch, in order: the
\* reported current never decreases and is the number of questions accumulated
\* so far, total is the requested N, a failed batch reports nothing, and on
\* success the last current is the length of the list returned.
C24_ProgressFollowsBatches ==
    /\ [](gpc \in {"loop", "fetch", "sleep", "done", "failed"} =>
            /\ progress.calls = batchIndex
            /\ progress.calls > 0 =>
                  progress.current = allQuestions /\ progress.total = count
            /\ gpc = "done" =>
                  progress.calls = TotalBatches /\ progress.current = allQuestions)
    /\ [][(gpc # "idle" /\ gpc' # "idle") =>
            /\ progress'.current >= progress.current
            /\ progress' # progress =>
                  /\ progress'.calls = progress.calls + 1
                  /\ batchIndex' = batchIndex + 1
                  /\ gpc = "fetch" /\ gpc' = "loop"
            /\ gpc' = "failed" => progress' = progress]_vars

\* a call of three batches has returned, each batch reported
C24_Witness ==
    /\ gpc = "done"
    /\ progress.calls = 3
    /\ progress.current = allQuestions
    /\ progress.current > requested[3]

----------------------------------------------------------------------------
(* C25: each quiz session contributes to the statistics and to the attempt  *)
(* list of its exam at most once: whatever sequence of completing a         *)
(* session, loading its quiz page again and opening a 'view details'        *)
(* session is followed, updateFromSession has run at most once for every    *)
(* session id and at most one ExamAttempt was appended for it.              *)
C25_OncePerSession ==
    \A s \in SessionIds : updated[s] <= 1 /\ appended[s] <= 1

----------------------------------------------------------------------------
(* C26: the statistics maintained incrementally agree with a recomputation: *)
(* whenever no completion of a quiz is in progress, the persisted           *)
(* totalQuestionsAnswered, totalCorrectAnswers, totalExamsTaken,            *)
(* averageScore and per-domain counters equal what calculateFromScratch     *)
(* computes from the stored sessions.                                       *)
StatisticsSettled == statistics # None /\ QuizQuiet /\ examsQ = <<>>

C26_AgreesWithRecomputation ==
    StatisticsSettled =>
        /\ statistics[1].totalQuestionsAnswered = calculateFromScratch.totalQuestionsAnswered
        /\ statistics[1].totalCorrectAnswers = calculateFromScratch.totalCorrectAnswers
        /\ statistics[1].totalExamsTaken = calculateFromScratch.totalExamsTaken
        /\ statistics[1].averageScore = calculateFromScratch.averageScore
        /\ \A d \in Domain :
              /\ statistics[1].domainsProgress[d].questionsAnswered
                    = calculateFromScratch.domainsProgress[d].questionsAnswered
              /\ statistics[1].domainsProgress[d].correctAnswers
                    = calculateFromScratch.domainsProgress[d].correctAnswers

----------------------------------------------------------------------------
(* C27: the persisted statistics are consistent: totalCorrectAnswers is at  *)
(* most totalQuestionsAnswered; for every domain correctAnswers is at most  *)
(* questionsAnswered and averageScore lies between 0 and 100; and the       *)
(* questionsAnswered of the domains add up to totalQuestionsAnswered.       *)
DomainQuestionsAnswered(st) ==
    SumOver([d \in Domain |-> st.domainsProgress[d].questionsAnswered], Domain)

C27_StatisticsConsistent ==
    statistics # None =>
        /\ statistics[1].totalCorrectAnswers <= statistics[1].totalQuestionsAnswered
        /\ \A d \in Domain :
              /\ statistics[1].domainsProgress[d].correctAnswers
                    <= statistics[1].domainsProgress[d].questionsAnswered
              /\ statistics[1].domainsProgress[d].averageScore >= 0
              /\ statistics[1].domainsProgress[d].averageScore <= 100
        /\ DomainQuestionsAnswered(statistics[1]) = statistics[1].totalQuestionsAnswered

----------------------------------------------------------------------------
(* C28: the question index stays within the session.  For a loaded session  *)
(* (which has at least one question) the currentIndex of the page, of the   *)
(* stored session and of every save in flight is at least 0 and less than   *)
(* questions.length, whatever Next, Previous, quick-navigation and reload   *)
(* steps were taken; Previous on the first question is not a step; a        *)
(* practice quiz is completed only by Next on the last question, which      *)
(* leaves the index where it is.                                            *)
IndexInRange(i) == i >= 0 /\ i < NumQuestions

----------------------------------------------------------------------------
(* C29: the time an exam session has consumed is never given back: over the *)
(* life of the session, reloads of the quiz page included, the countdown    *)
(* ticks at most timeLimit times before it completes; step by step, while   *)
(* the exam session stays loaded its remaining time never grows, a reload   *)
(* included.                                                                *)
C29_TimeNeverGivenBack ==
    [][(ExamOpen /\ ExamOpen') => timer'.time <= timer.time]_vars

----------------------------------------------------------------------------
(* C30: the 'update available' banner is shown only while a new version of  *)
(* the service worker is waiting: once the user has clicked 'update now'    *)
(* and the new worker has taken control, no page shows the banner until     *)
(* another new version is found.                                            *)
C30_NoBannerAfterUpdate ==
    (/\ clicked
     /\ registration.installing = 0 /\ registration.waiting = 0
     /\ page.loaded /\ page.controller = registration.active)
        => ~page.showUpdate

=============================================================================
